---- MODULE Spec2Model ----
(***************************************************************************)
(* State-machine model of the audio-reactive DMX lighting system           *)
(* (googoolist/lightshow-2): the feature extractor of app/audio.py and the *)
(* lighting engines of app/lighting.py, app/lighting_base.py and           *)
(* app/lighting_simple.py.                                                 *)
(*                                                                         *)
(* Units.  Beat times are integer milliseconds.  BPM values are held in    *)
(* thousandths of a beat per minute, loudness values (RMS, intensity,      *)
(* band energies) in thousandths, so 1.0 is 1000.  Float arithmetic is     *)
(* rendered as integer arithmetic on these units (floor division).         *)
(***************************************************************************)
EXTENDS Integers, Sequences, FiniteSets, TLC

VARIABLES
    \* ---- AudioAnalyzer (app/audio.py) ----
    now,               \* time.time() - start_time of the newest block, ms
    last_beat_time,    \* self.last_beat_time, ms
    beat_timestamps,   \* self.beat_timestamps, deque(maxlen=8)
    current_bpm,       \* self.current_bpm, milli-BPM
    beat_queue,        \* the shared queue.Queue of beat events
    current_intensity, \* self.current_intensity, thousandths
    intensity_history, \* self.intensity_history, deque(maxlen=5)
    silent_frames,     \* self.silent_frames
    audio_active,      \* self.audio_active
    intensity_trend,   \* self.intensity_trend, deque(maxlen=30)
    is_building,       \* self.is_building
    is_drop,           \* self.is_drop
    build_age,         \* audio blocks since self.build_start_time (capped)
    drop_age,          \* audio blocks since is_drop was last set (capped)
    bass_intensity,    \* self.bass_intensity, thousandths
    mid_intensity,     \* self.mid_intensity, thousandths
    high_intensity,    \* self.high_intensity, thousandths
    genre_hints,       \* self.genre_hints, millionths
    detected_genre,    \* self.detected_genre
    state_lock,        \* holder of self.state_lock: "free", "audio", "reader"
    audio_pc,          \* position of the audio thread in _audio_loop
    block,             \* the audio block being processed
    \* ---- a thread calling AudioAnalyzer.get_state ----
    reader_pc,         \* "idle" or "reading"
    snap,              \* the field values get_state has read so far
    returned,          \* the dictionary of the newest get_state call
    \* ---- bookkeeping of the environment ----
    last_op,           \* name of the operation that ran last
    beat_calls,        \* number of _handle_beat calls so far
    odd_gaps,          \* number of calls that were off the regular beat
    intensity_calls,   \* number of _update_intensity calls so far
    last_rms,          \* the rms argument of the newest call
    quiet_run,         \* below-threshold blocks fed since the last loud one
    presence_calls,    \* number of _update_audio_presence calls so far
    last_level,        \* the intensity argument of the newest call
    level_changes,     \* number of times the intensity input changed level
    blocks_done,       \* completed iterations of _audio_loop
    reads_done,        \* completed get_state calls
    committed,         \* the field values at the end of each iteration
    genre_env,         \* the _detect_genre calls so far and their newest input
    read_errors,       \* number of stream.read calls that raised so far
    divider_env,       \* ticks of the beat divider and beats since its last trigger
    dj,                \* the dj_* fields of the SimpleDmxController
    dj_env,            \* the _program_dj_mode ticks so far and their newest input
    fade_triggers,     \* the colour-change triggers of the fade ticks so far
    \* ---- the lighting engines (app/lighting*.py) ----
    controller,        \* the controller whose thread runs: "none" before start()
    adv,               \* the fields of the Advanced DmxController
    simple,            \* the fields of the SimpleDmxController
    data,              \* the frame of the newest _compute_dmx_frame call
    since_update,      \* current_time - last_update of the base loop, ms
    ticks,             \* number of frames computed so far
    control_calls,     \* number of control-surface calls so far
    pending,           \* a beat was put since the previous frame was computed
    last_call,         \* name and argument of the newest control-surface call
    \* ---- the threads of the application, step by step ----
    stop_event,        \* the shared threading.Event
    control_lock,      \* holder of DmxController.control_lock, or "free"
    engine_pc,         \* position of the controller's thread
    tick,              \* the locals of the _compute_dmx_frame call under way
    ui_pc,             \* position of the control-surface thread
    extractor_pc,      \* position of the audio thread in its while loop
    sent               \* the newest frame handed to the OLA client

beat_state == <<last_beat_time, beat_timestamps, current_bpm>>
intensity_state == <<current_intensity, intensity_history>>
presence_state == <<silent_frames, audio_active>>
trend_state == <<intensity_trend, is_building, is_drop, build_age, drop_age>>
freq_state == <<bass_intensity, mid_intensity, high_intensity>>
genre_state == <<genre_hints, detected_genre>>
loop_state == <<state_lock, audio_pc, block, blocks_done, committed>>
reader_state == <<reader_pc, snap, returned, reads_done>>

beat_env == <<beat_calls, odd_gaps>>
presence_env == <<quiet_run, presence_calls>>
trend_env == <<last_level, level_changes>>

audio_vars == <<now, beat_state, beat_queue, intensity_state, presence_state,
                trend_state, freq_state, genre_state, loop_state,
                reader_state>>
env_vars == <<last_op, beat_env, intensity_calls, last_rms, presence_env,
              trend_env, genre_env, read_errors, divider_env, dj, dj_env, fade_triggers>>

engine_vars == <<controller, adv, simple, data, since_update, ticks, control_calls,
                 last_call,
                 pending>>

thread_vars == <<stop_event, control_lock, engine_pc, tick, ui_pc, extractor_pc,
                 sent>>

vars == <<audio_vars, env_vars, engine_vars, thread_vars>>

----------------------------------------------------------------------------
\* Program constants (app/config.py)

MIN_BPM == 60
MAX_BPM == 180
SILENCE_THRESHOLD == 10      \* 0.01, in thousandths
SILENCE_FRAME_COUNT == 44
SAMPLE_RATE == 44100
BUFFER_SIZE == 512

\* Bounds of the model
MaxBeatCalls == 10
MaxOddGaps == 2
MaxIntensityCalls == 7
MaxPresenceCalls == 47
MaxLevelChanges == 2
MaxGenreCalls == 24
MaxGenreChanges == 2
MaxReadErrors == 2
MaxDividerTicks == 8
MaxDjTicks == 34
MaxDjChanges == 2
MaxAudioBlocks == 3
MaxReads == 1

\* The regular beat spacing (0.5 s) and the irregular spacings the beat
\* detector may report: a double trigger (50 ms), a short glitch (150 ms),
\* a fast beat (250 ms), a slow beat (1.5 s) and a long pause (2.5 s).
RegularGap == {500}
OddGaps == {50, 150, 250, 1500, 2500}

----------------------------------------------------------------------------
\* Helpers

Max(a, b) == IF a >= b THEN a ELSE b
Min(a, b) == IF a <= b THEN a ELSE b

\* deque(maxlen=n).append(x)
DequeAppend(q, x, n) ==
    LET s == Append(q, x)
    IN  IF Len(s) > n THEN SubSeq(s, 2, Len(s)) ELSE s

RECURSIVE InsertSorted(_, _)
InsertSorted(s, x) ==
    IF s = <<>> THEN <<x>>
    ELSE IF x <= Head(s) THEN <<x>> \o s
         ELSE <<Head(s)>> \o InsertSorted(Tail(s), x)

RECURSIVE SortedSeq(_)
SortedSeq(s) == IF s = <<>> THEN <<>> ELSE InsertSorted(SortedSeq(Tail(s)), Head(s))

\* Twice np.median(s) of a non-empty sequence (the mean of the two middle
\* elements when the length is even), kept doubled to stay an integer.
Median2(s) ==
    LET t == SortedSeq(s)
        n == Len(t)
    IN  IF n % 2 = 1 THEN 2 * t[(n + 1) \div 2]
        ELSE t[n \div 2] + t[n \div 2 + 1]

----------------------------------------------------------------------------
\* AudioAnalyzer._handle_beat

\* (mutant) the debounce window written as 10 ms instead of 100 ms
Debounced_10ms(t) == t - last_beat_time < 10

\* The debounce test: less than 100 ms after the previously accepted beat.
Debounced(t) == t - last_beat_time < 100

\* The successive inter-beat intervals of a timestamp history.
Intervals(ts) == [i \in 1..(Len(ts) - 1) |-> ts[i + 1] - ts[i]]

\* (mutant) the filter without its upper limit
ReasonableInterval_NoUpper(d) == 200 < d

\* The filter "0.2 < interval < 2.0".
ReasonableInterval(d) == 200 < d /\ d < 2000

SurvivingIntervals(ts) == SelectSeq(Intervals(ts), ReasonableInterval)

\* (mutant) the clamp left out
ClampBpm_None(bpm) == bpm

\* max(MIN_BPM, min(MAX_BPM, bpm)) in milli-BPM
ClampBpm(bpm) == Max(MIN_BPM * 1000, Min(MAX_BPM * 1000, bpm))

\* 60.0 / median_interval, clamped; the median is in ms, the result in
\* milli-BPM: 60 * 1000 * 1000 / median = 120000000 / (2 * median).
BpmFromIntervals(iv) == ClampBpm((120 * 1000 * 1000) \div Median2(iv))

\* The value of self.current_bpm after the history became ts.
NewBpm(ts, old) ==
    IF Len(ts) >= 2 /\ SurvivingIntervals(ts) # <<>>
    THEN BpmFromIntervals(SurvivingIntervals(ts))
    ELSE old

HandleBeat(t, intensity) ==
    IF Debounced(t)
    THEN UNCHANGED <<last_beat_time, beat_timestamps, current_bpm, beat_queue>>
    ELSE LET ts == DequeAppend(beat_timestamps, t, 8)
             bpm == NewBpm(ts, current_bpm)
         IN  /\ last_beat_time' = t
             /\ beat_timestamps' = ts
             /\ current_bpm' = bpm
             /\ beat_queue' = Append(beat_queue,
                    [timestamp |-> t, bpm |-> bpm, intensity |-> intensity])

\* One call of _handle_beat from the audio loop, gap ms after the previous
\* block in which the tempo detector fired.
BeatCall(gap) ==
    /\ beat_calls < MaxBeatCalls
    /\ gap \in OddGaps => odd_gaps < MaxOddGaps
    /\ now' = now + gap
    /\ HandleBeat(now + gap, current_intensity)
    /\ last_op' = "handle_beat"
    /\ beat_calls' = beat_calls + 1
    /\ odd_gaps' = IF gap \in OddGaps THEN odd_gaps + 1 ELSE odd_gaps
    /\ UNCHANGED <<intensity_state, presence_state, trend_state, freq_state,
                   genre_state, loop_state, reader_state>>
    /\ UNCHANGED <<intensity_calls, last_rms, presence_env,
                   trend_env, genre_env, read_errors, divider_env, dj, dj_env, fade_triggers>>
    /\ UNCHANGED <<engine_vars, thread_vars>>

----------------------------------------------------------------------------
\* AudioAnalyzer._update_intensity

RECURSIVE SumSeq(_)
SumSeq(s) == IF s = <<>> THEN 0 ELSE Head(s) + SumSeq(Tail(s))

\* np.mean of a non-empty sequence
Mean(s) == SumSeq(s) \div Len(s)

\* (mutant) the normalisation to the 0-1 range left out
NormalizeIntensity_None(x) == x

\* min(1.0, self.current_intensity)
NormalizeIntensity(x) == Min(1000, x)

\* smoothing_factor * current + (1 - smoothing_factor) * smoothed, with
\* smoothing_factor = 0.7
Blend(current, smoothed) == (7 * current + 3 * smoothed) \div 10

UpdateIntensity(rms) ==
    LET h == DequeAppend(intensity_history, rms, 5)
    IN  /\ intensity_history' = h
        /\ current_intensity' =
               IF Len(h) > 0
               THEN NormalizeIntensity(Blend(current_intensity, Mean(h)))
               ELSE current_intensity

\* The RMS values fed to the smoother: silence, a quiet block, a normal
\* block, full scale, and a spike far above 1.0.
RmsLevels == {0, 5, 400, 1000, 8000}

IntensityCall(rms) ==
    /\ intensity_calls < MaxIntensityCalls
    /\ UpdateIntensity(rms)
    /\ intensity_calls' = intensity_calls + 1
    /\ last_rms' = rms
    /\ last_op' = "update_intensity"
    /\ UNCHANGED <<now, beat_state, beat_queue, presence_state, trend_state,
                   freq_state, genre_state, loop_state, reader_state>>
    /\ UNCHANGED <<beat_env, presence_env,
                   trend_env, genre_env, read_errors, divider_env, dj, dj_env, fade_triggers>>
    /\ UNCHANGED <<engine_vars, thread_vars>>

----------------------------------------------------------------------------
\* AudioAnalyzer._update_audio_presence

\* lines 196-199: the new value of self.silent_frames
CountSilentFrames(rms) ==
    IF rms < SILENCE_THRESHOLD THEN silent_frames + 1 ELSE 0

\* (mutant) the comparison written <= instead of <
StillActive_Le(n) == n <= SILENCE_FRAME_COUNT

\* line 202: self.silent_frames < config.SILENCE_FRAME_COUNT
StillActive(n) == n < SILENCE_FRAME_COUNT

UpdateAudioPresence(rms) ==
    /\ silent_frames' = CountSilentFrames(rms)
    /\ audio_active' = StillActive(CountSilentFrames(rms))

\* The RMS values fed to the detector: silence, just below the threshold,
\* exactly the threshold, and a normal block.
PresenceRms == {0, 9, 10, 400}

PresenceCall(rms) ==
    /\ presence_calls < MaxPresenceCalls
    /\ UpdateAudioPresence(rms)
    /\ presence_calls' = presence_calls + 1
    /\ quiet_run' = IF rms < 10 THEN quiet_run + 1 ELSE 0
    /\ last_rms' = rms
    /\ last_op' = "update_audio_presence"
    /\ UNCHANGED <<now, beat_state, beat_queue, intensity_state, trend_state,
                   freq_state, genre_state, loop_state, reader_state>>
    /\ UNCHANGED <<beat_env, intensity_calls, trend_env, genre_env, read_errors, divider_env, dj, dj_env, fade_triggers>>
    /\ UNCHANGED <<engine_vars, thread_vars>>

----------------------------------------------------------------------------
\* AudioAnalyzer._detect_build_drop
\*
\* The audio loop calls it once per block, and a block lasts
\* BUFFER_SIZE / SAMPLE_RATE seconds, so time.time() - build_start_time is
\* carried as build_age, the number of blocks since build_start_time was
\* set, capped at the first value that exceeds one second.

\* The first block count whose duration exceeds 1.0 s.
AgeCap == SAMPLE_RATE \div BUFFER_SIZE + 1

\* time.time() - self.build_start_time > 1.0
OlderThanOneSecond(age) == age * BUFFER_SIZE > SAMPLE_RATE

\* list(self.intensity_trend)[-10:]
Recent(trend) == SubSeq(trend, Len(trend) - 9, Len(trend))

\* list(self.intensity_trend)[:-10] if len(...) > 10 else recent
Older(trend) ==
    IF Len(trend) > 10 THEN SubSeq(trend, 1, Len(trend) - 10) ELSE Recent(trend)

\* recent_avg > older_avg * 1.2, as an exact comparison of the two means
RisingTrend(trend) ==
    10 * SumSeq(Recent(trend)) * Len(Older(trend))
        > 12 * SumSeq(Older(trend)) * 10

\* (mutant) the comparison without the factor 1.5
SuddenJump_AboveAverage(trend, intensity) ==
    10 * intensity > SumSeq(Recent(trend))

\* intensity > recent_avg * 1.5
SuddenJump(trend, intensity) == 20 * intensity > 3 * SumSeq(Recent(trend))

\* The flags and the age after lines 249-262, from the flags and the
\* age at the time of the call.
BuildDropFlags(trend, intensity, building, drop, age) ==
    LET start == RisingTrend(trend) /\ ~building
        b1 == IF start THEN TRUE ELSE building
        a1 == IF start THEN 0 ELSE age
        jump == b1 /\ SuddenJump(trend, intensity)
        b2 == IF jump THEN FALSE ELSE b1
        d2 == IF jump THEN TRUE ELSE drop
        d3 == IF d2 /\ OlderThanOneSecond(a1) THEN FALSE ELSE d2
    IN  [building |-> b2, drop |-> d3, age |-> a1]

\* The time for which is_drop has been true without interruption, in audio
\* blocks, as the callers of get_state can observe it: 0 in the call that
\* sets the flag and while the flag is false.
DropAge(was_drop, drop, elapsed) ==
    IF drop /\ was_drop THEN Min(2 * AgeCap, drop_age + elapsed) ELSE 0

\* elapsed: the audio blocks since the previous call (1 in the steady loop)
DetectBuildDrop(intensity, elapsed) ==
    LET trend == DequeAppend(intensity_trend, intensity, 30)
        age == Min(AgeCap, build_age + elapsed)
        f == BuildDropFlags(trend, intensity, is_building, is_drop, age)
    IN  /\ intensity_trend' = trend
        /\ IF Len(trend) < 10
           THEN /\ UNCHANGED <<is_building, is_drop>>
                /\ build_age' = age
           ELSE /\ is_building' = f.building
                /\ is_drop' = f.drop
                /\ build_age' = f.age
        /\ drop_age' = DropAge(is_drop, is_drop', elapsed)

\* The intensity values fed to the detector: silence, a quiet passage, a
\* slightly louder one, and full scale.
TrendLevels == {0, 100, 140, 1000}

TrendCall(intensity) ==
    /\ (intensity_trend # <<>> /\ intensity # last_level)
            => level_changes < MaxLevelChanges
    /\ DetectBuildDrop(intensity, 1)
    /\ last_level' = intensity
    /\ level_changes' =
          IF intensity_trend # <<>> /\ intensity # last_level
          THEN level_changes + 1 ELSE level_changes
    /\ last_op' = "detect_build_drop"
    /\ UNCHANGED <<now, beat_state, beat_queue, intensity_state,
                   presence_state, freq_state, genre_state, loop_state,
                   reader_state>>
    /\ UNCHANGED <<beat_env, intensity_calls, last_rms, presence_env,
                   genre_env, read_errors, divider_env, dj, dj_env, fade_triggers>>
    /\ UNCHANGED <<engine_vars, thread_vars>>

----------------------------------------------------------------------------
\* AudioAnalyzer._analyze_frequencies
\*
\* The argument is the mean FFT magnitude of each band; every band of a
\* 512-sample block at 44.1 kHz holds at least one bin, so each of the
\* three assignments is made.

\* mean magnitude / scale, then min(1.0, ...), in thousandths
BandIntensity(mag, scale) == Min(1000, (mag * 1000) \div scale)

AnalyzeFrequencies(bass_mag, mid_mag, high_mag) ==
    /\ bass_intensity' = BandIntensity(bass_mag, 1000)
    /\ mid_intensity' = BandIntensity(mid_mag, 500)
    /\ high_intensity' = BandIntensity(high_mag, 250)

----------------------------------------------------------------------------
\* AudioAnalyzer._detect_genre

\* The keys of self.genre_hints in their dictionary order.
GenreOrder == <<"edm", "rock", "hiphop", "jazz", "ambient">>
Genres == {GenreOrder[i] : i \in 1..Len(GenreOrder)}

\* The increment each rule adds (0.1, or 0.05 for jazz), in millionths;
\* bpm is in milli-BPM, bass in thousandths.
GenreIncrement(g, bpm, bass, has_beat) ==
    CASE g = "edm" ->
            IF 120000 <= bpm /\ bpm <= 140000 /\ bass > 600 /\ has_beat
            THEN 100000 ELSE 0
      [] g = "hiphop" ->
            IF 80000 <= bpm /\ bpm <= 100000 /\ bass > 700 THEN 100000 ELSE 0
      [] g = "rock" ->
            IF 100000 <= bpm /\ bpm <= 140000 /\ 300 < bass /\ bass < 700
            THEN 100000 ELSE 0
      [] g = "jazz" ->
            IF 60000 <= bpm /\ bpm <= 150000 /\ ~has_beat THEN 50000 ELSE 0
      [] g = "ambient" ->
            IF (bpm < 80000 \/ bpm = 0) /\ bass < 300 THEN 100000 ELSE 0

\* The scores after the decay by 0.99 and the increments.
NewHints(hints, bpm, bass, has_beat) ==
    [g \in Genres |->
        (hints[g] * 99) \div 100 + GenreIncrement(g, bpm, bass, has_beat)]

MaxScore(hints) ==
    CHOOSE m \in {hints[g] : g \in Genres} : \A g \in Genres : hints[g] <= m

\* The first genre, in dictionary order, whose score is the maximum.
FirstAtMax(hints) ==
    LET i == CHOOSE i \in 1..Len(GenreOrder) :
                /\ hints[GenreOrder[i]] = MaxScore(hints)
                /\ \A j \in 1..(i - 1) : hints[GenreOrder[j]] # MaxScore(hints)
    IN  GenreOrder[i]

DetectGenre(bpm, bass, has_beat) ==
    LET h == NewHints(genre_hints, bpm, bass, has_beat)
    IN  /\ genre_hints' = h
        /\ detected_genre' =
               IF MaxScore(h) > 500000 THEN FirstAtMax(h) ELSE detected_genre

\* The arguments of a _detect_genre call (line 122): a steady EDM track
\* (128 BPM, heavy bass, on the beat), a steady rock track (128 BPM,
\* balanced bass, on the beat), and a passage that matches no rule (no
\* tempo, balanced bass).
GenreInputs ==
    <<[bpm |-> 128000, bass |-> 900, has_beat |-> TRUE],
      [bpm |-> 128000, bass |-> 500, has_beat |-> TRUE],
      [bpm |-> 0, bass |-> 500, has_beat |-> FALSE]>>

\* One call of _detect_genre.  The music changes character at most
\* MaxGenreChanges times in MaxGenreCalls calls.
GenreCall(k) ==
    /\ genre_env.calls < MaxGenreCalls
    /\ (genre_env.last # 0 /\ k # genre_env.last)
            => genre_env.changes < MaxGenreChanges
    /\ DetectGenre(GenreInputs[k].bpm, GenreInputs[k].bass,
                   GenreInputs[k].has_beat)
    /\ genre_env' =
          [calls |-> genre_env.calls + 1,
           changes |-> IF genre_env.last # 0 /\ k # genre_env.last
                       THEN genre_env.changes + 1 ELSE genre_env.changes,
           last |-> k]
    /\ last_op' = "detect_genre"
    /\ UNCHANGED <<now, beat_state, beat_queue, intensity_state,
                   presence_state, trend_state, freq_state, loop_state,
                   reader_state>>
    /\ UNCHANGED <<beat_env, intensity_calls, last_rms, presence_env,
                   trend_env, read_errors, divider_env, dj, dj_env, fade_triggers>>
    /\ UNCHANGED <<engine_vars, thread_vars>>

----------------------------------------------------------------------------
\* AudioAnalyzer._audio_loop, one step per call it makes, and
\* AudioAnalyzer.get_state, one step per field it reads.

\* An audio block as the loop sees it: whether the tempo detector fires,
\* its RMS, the mean FFT magnitude of its bands, and the time since the
\* previous block that was read successfully: 12 ms for the next block,
\* 512 ms when five reads in between raised PortAudioError (each followed
\* by the 0.1 s sleep).
NoBlock == [beat |-> FALSE, rms |-> 0, bass |-> 0, mid |-> 0, high |-> 0,
            gap |-> 0]
Blocks ==
    { [beat |-> FALSE, rms |-> 0, bass |-> 0, mid |-> 0, high |-> 0,
       gap |-> 12],
      [beat |-> TRUE, rms |-> 400, bass |-> 900, mid |-> 100, high |-> 25,
       gap |-> 512] }

\* The number of block periods in a gap of ms milliseconds.
BlocksIn(ms) == Max(1, (ms * SAMPLE_RATE) \div (BUFFER_SIZE * 1000))

\* The fields get_state returns, in the order it reads them.
Fields ==
    <<current_bpm, current_intensity, audio_active, bass_intensity,
      mid_intensity, high_intensity, is_building, is_drop, detected_genre>>

\* lines 96-106: the blocking read and the tempo detector
AudioRead(b) ==
    /\ audio_pc = "read"
    /\ ~stop_event
    /\ blocks_done < MaxAudioBlocks
    /\ block' = b
    /\ now' = now + b.gap
    /\ audio_pc' = IF b.beat THEN "handle_beat" ELSE "update_intensity"
    /\ last_op' = "read"
    /\ UNCHANGED <<beat_state, beat_queue, intensity_state, presence_state,
                   trend_state, freq_state, genre_state, state_lock,
                   blocks_done, committed, reader_state>>
    /\ UNCHANGED <<beat_env, intensity_calls, last_rms, presence_env,
                   trend_env, genre_env, read_errors, divider_env, dj, dj_env, fade_triggers>>
    /\ UNCHANGED <<engine_vars, thread_vars>>

\* line 93: the while test finds the shutdown flag set
AudioLoopEnds ==
    /\ audio_pc = "read"
    /\ stop_event
    /\ audio_pc' = "ended"
    /\ last_op' = "audio_loop_ends"
    /\ UNCHANGED <<now, beat_state, beat_queue, intensity_state,
                   presence_state, trend_state, freq_state, genre_state,
                   state_lock, block, blocks_done, committed, reader_state>>
    /\ UNCHANGED <<beat_env, intensity_calls, last_rms, presence_env,
                   trend_env, genre_env, read_errors, divider_env, dj, dj_env, fade_triggers>>
    /\ UNCHANGED <<engine_vars, thread_vars>>

\* AudioAnalyzer.stop, line 315: self.stop_event.set()
AudioStop ==
    /\ ~stop_event
    /\ stop_event' = TRUE
    /\ last_op' = "audio_stop"
    /\ UNCHANGED audio_vars
    /\ UNCHANGED <<beat_env, intensity_calls, last_rms, presence_env,
                   trend_env, genre_env, read_errors, divider_env, dj, dj_env, fade_triggers>>
    /\ UNCHANGED <<engine_vars, control_lock, engine_pc, tick, ui_pc,
                   extractor_pc, sent>>

\* The exceptions stream.read may raise.
ReadExceptions == {"PortAudioError", "Exception"}

\* line 130: "except sd.PortAudioError" catches it inside the loop
CaughtInLoop_Nothing(kind) == FALSE

CaughtInLoop(kind) == kind = "PortAudioError"

\* lines 94-96, 130-135: stream.read raises.  An exception caught inside
\* the loop is printed, the thread sleeps 0.1 s and goes back to the while
\* test; any other leaves the loop through the outer handler.
AudioReadRaises(kind) ==
    /\ audio_pc = "read"
    /\ ~stop_event
    /\ read_errors < MaxReadErrors
    /\ read_errors' = read_errors + 1
    /\ audio_pc' = IF CaughtInLoop(kind) THEN "read" ELSE "ended"
    /\ now' = IF CaughtInLoop(kind) THEN now + 100 ELSE now
    /\ last_op' = kind
    /\ UNCHANGED <<beat_state, beat_queue, intensity_state, presence_state,
                   trend_state, freq_state, genre_state, state_lock, block,
                   blocks_done, committed, reader_state>>
    /\ UNCHANGED <<beat_env, intensity_calls, last_rms, presence_env,
                   trend_env, genre_env, divider_env, dj, dj_env, fade_triggers>>
    /\ UNCHANGED <<engine_vars, thread_vars>>

\* lines 108-109
AudioHandleBeat ==
    /\ audio_pc = "handle_beat"
    /\ HandleBeat(now, current_intensity)
    /\ audio_pc' = "update_intensity"
    /\ last_op' = "handle_beat"
    /\ UNCHANGED <<now, intensity_state, presence_state, trend_state,
                   freq_state, genre_state, state_lock, block, blocks_done,
                   committed, reader_state>>
    /\ UNCHANGED <<beat_env, intensity_calls, last_rms, presence_env,
                   trend_env, genre_env, read_errors, divider_env, dj, dj_env, fade_triggers>>
    /\ UNCHANGED <<engine_vars, thread_vars>>

\* lines 112-113
AudioUpdateIntensity ==
    /\ audio_pc = "update_intensity"
    /\ UpdateIntensity(block.rms)
    /\ audio_pc' = "analyze_frequencies"
    /\ last_op' = "update_intensity"
    /\ UNCHANGED <<now, beat_state, beat_queue, presence_state, trend_state,
                   freq_state, genre_state, state_lock, block, blocks_done,
                   committed, reader_state>>
    /\ UNCHANGED <<beat_env, intensity_calls, last_rms, presence_env,
                   trend_env, genre_env, read_errors, divider_env, dj, dj_env, fade_triggers>>
    /\ UNCHANGED <<engine_vars, thread_vars>>

\* line 116
AudioAnalyzeFrequencies ==
    /\ audio_pc = "analyze_frequencies"
    /\ AnalyzeFrequencies(block.bass, block.mid, block.high)
    /\ audio_pc' = "detect_build_drop"
    /\ last_op' = "analyze_frequencies"
    /\ UNCHANGED <<now, beat_state, beat_queue, intensity_state,
                   presence_state, trend_state, genre_state, state_lock,
                   block, blocks_done, committed, reader_state>>
    /\ UNCHANGED <<beat_env, intensity_calls, last_rms, presence_env,
                   trend_env, genre_env, read_errors, divider_env, dj, dj_env, fade_triggers>>
    /\ UNCHANGED <<engine_vars, thread_vars>>

\* line 119
AudioDetectBuildDrop ==
    /\ audio_pc = "detect_build_drop"
    /\ DetectBuildDrop(current_intensity, BlocksIn(block.gap))
    /\ audio_pc' = "detect_genre"
    /\ last_op' = "detect_build_drop"
    /\ UNCHANGED <<now, beat_state, beat_queue, intensity_state,
                   presence_state, freq_state, genre_state, state_lock,
                   block, blocks_done, committed, reader_state>>
    /\ UNCHANGED <<beat_env, intensity_calls, last_rms, presence_env,
                   trend_env, genre_env, read_errors, divider_env, dj, dj_env, fade_triggers>>
    /\ UNCHANGED <<engine_vars, thread_vars>>

\* line 122
AudioDetectGenre ==
    /\ audio_pc = "detect_genre"
    /\ DetectGenre(current_bpm, bass_intensity, block.beat)
    /\ audio_pc' = "update_audio_presence"
    /\ last_op' = "detect_genre"
    /\ UNCHANGED <<now, beat_state, beat_queue, intensity_state,
                   presence_state, trend_state, freq_state, state_lock,
                   block, blocks_done, committed, reader_state>>
    /\ UNCHANGED <<beat_env, intensity_calls, last_rms, presence_env,
                   trend_env, genre_env, read_errors, divider_env, dj, dj_env, fade_triggers>>
    /\ UNCHANGED <<engine_vars, thread_vars>>

\* line 125: the last field write of the iteration; the values the fields
\* now hold are those of this completed iteration.
AudioUpdatePresence ==
    /\ audio_pc = "update_audio_presence"
    /\ UpdateAudioPresence(block.rms)
    /\ UNCHANGED <<now, beat_state, beat_queue, intensity_state, trend_state,
                   freq_state, genre_state, state_lock, block, blocks_done,
                   reader_state>>
    /\ committed' = committed \cup {Fields'}
    /\ audio_pc' = "update_shared_state"
    /\ last_op' = "update_audio_presence"
    /\ UNCHANGED <<beat_env, intensity_calls, last_rms, presence_env,
                   trend_env, genre_env, read_errors, divider_env, dj, dj_env, fade_triggers>>
    /\ UNCHANGED <<engine_vars, thread_vars>>

\* lines 128, 204-208: "with self.state_lock: pass"
AudioUpdateSharedState ==
    /\ audio_pc = "update_shared_state"
    /\ state_lock = "free"
    /\ audio_pc' = "read"
    /\ blocks_done' = blocks_done + 1
    /\ last_op' = "update_shared_state"
    /\ UNCHANGED <<now, beat_state, beat_queue, intensity_state,
                   presence_state, trend_state, freq_state, genre_state,
                   state_lock, block, committed, reader_state>>
    /\ UNCHANGED <<beat_env, intensity_calls, last_rms, presence_env,
                   trend_env, genre_env, read_errors, divider_env, dj, dj_env, fade_triggers>>
    /\ UNCHANGED <<engine_vars, thread_vars>>

\* get_state, line 300: "with self.state_lock:"
GetStateAcquire ==
    /\ reader_pc = "idle"
    /\ reads_done < MaxReads
    /\ state_lock = "free"
    /\ state_lock' = "reader"
    /\ reader_pc' = "reading"
    /\ snap' = <<>>
    /\ last_op' = "get_state_acquire"
    /\ UNCHANGED <<now, beat_state, beat_queue, intensity_state,
                   presence_state, trend_state, freq_state, genre_state,
                   audio_pc, block, blocks_done, committed, returned,
                   reads_done>>
    /\ UNCHANGED <<beat_env, intensity_calls, last_rms, presence_env,
                   trend_env, genre_env, read_errors, divider_env, dj, dj_env, fade_triggers>>
    /\ UNCHANGED <<engine_vars, thread_vars>>

\* get_state, lines 301-311: the next field of the dictionary is read
GetStateReadField ==
    /\ reader_pc = "reading"
    /\ Len(snap) < Len(Fields)
    /\ snap' = Append(snap, Fields[Len(snap) + 1])
    /\ last_op' = "get_state_read"
    /\ UNCHANGED <<now, beat_state, beat_queue, intensity_state,
                   presence_state, trend_state, freq_state, genre_state,
                   loop_state, reader_pc, returned, reads_done>>
    /\ UNCHANGED <<beat_env, intensity_calls, last_rms, presence_env,
                   trend_env, genre_env, read_errors, divider_env, dj, dj_env, fade_triggers>>
    /\ UNCHANGED <<engine_vars, thread_vars>>

\* get_state returns the dictionary and releases the lock
GetStateReturn ==
    /\ reader_pc = "reading"
    /\ Len(snap) = Len(Fields)
    /\ returned' = snap
    /\ snap' = <<>>
    /\ reader_pc' = "idle"
    /\ state_lock' = "free"
    /\ reads_done' = reads_done + 1
    /\ last_op' = "get_state_return"
    /\ UNCHANGED <<now, beat_state, beat_queue, intensity_state,
                   presence_state, trend_state, freq_state, genre_state,
                   audio_pc, block, blocks_done, committed>>
    /\ UNCHANGED <<beat_env, intensity_calls, last_rms, presence_env,
                   trend_env, genre_env, read_errors, divider_env, dj, dj_env, fade_triggers>>
    /\ UNCHANGED <<engine_vars, thread_vars>>

----------------------------------------------------------------------------
\* The lighting engines: what they share (app/config.py, app/audio.py)

DMX_CHANNELS == 56
UPDATE_FPS == 30
DEFAULT_LIGHT_COUNT == 4
MAX_LIGHTS == 8

\* Bounds of the engine specifications
MaxQueue == 1          \* beat events waiting in the queue
MaxTicks == 2          \* frames computed
MaxControlCalls == 1   \* calls made by the control surface
MaxSetterCalls == 1    \* calls with a numeric argument, and resets
MaxAmbientCalls == 2   \* calls that switch genre_auto or ambient_mode
MaxProgramCalls == 2   \* set_program calls of the control surface
MaxFadeTriggers == 3   \* colour changes triggered in the fade ticks

\* LIGHT_FIXTURES: the start channel of PAR1..PAR8 and the channel offsets
\* every fixture has.
START_CHANNEL == <<1, 8, 15, 22, 29, 36, 43, 50>>
CHANNELS ==
    [dimmer |-> 0, red |-> 1, green |-> 2, blue |-> 3, strobe |-> 4,
     mode |-> 5, speed |-> 6]

\* (mutant) an array one byte longer
ZeroFrame_OneMore == [ch \in 1..(DMX_CHANNELS + 1) |-> 0]

\* array.array('B', [0] * config.DMX_CHANNELS)
ZeroFrame == [ch \in 1..DMX_CHANNELS |-> 0]

\* data[base_channel + channels[name]] of fixture i (0-based), as an index
\* into a frame whose first channel has index 1.
ChannelOf(i, name) == (START_CHANNEL[i + 1] - 1) + CHANNELS[name] + 1

\* The fixture and the channel name behind every index of a frame.
ChannelMap ==
    [ch \in 1..DMX_CHANNELS |->
        CHOOSE pair \in (0..(MAX_LIGHTS - 1)) \X DOMAIN CHANNELS :
            ChannelOf(pair[1], pair[2]) = ch]

\* The frame after the per-fixture loop wrote values[i][name] for the
\* fixtures 0 .. active - 1 into an all-zero array.
WriteFixtures(values, active) ==
    [ch \in 1..DMX_CHANNELS |->
        IF ChannelMap[ch][1] < active
        THEN values[ChannelMap[ch][1]][ChannelMap[ch][2]]
        ELSE 0]

\* max(1, min(count, config.MAX_LIGHTS))
ClampLightCount(count) == Max(1, Min(count, MAX_LIGHTS))

\* The dictionary get_state returns. In the engine specifications the
\* extractor publishes its fields in one step, so the read is of one
\* iteration.
GetState ==
    [bpm |-> current_bpm, intensity |-> current_intensity,
     audio_active |-> audio_active, bass |-> bass_intensity,
     mid |-> mid_intensity, high |-> high_intensity,
     is_building |-> is_building, is_drop |-> is_drop,
     genre |-> detected_genre]

\* The feature snapshots the extractor publishes in the engine
\* specifications: a loud EDM passage, its drop, and the silence after it
\* (the tempo and the genre stay, the smoothed levels have decayed). The
\* silence before any music is the initial state.
FeatureSnapshots ==
    { [bpm |-> 128000, intensity |-> 800, audio_active |-> TRUE,
       bass |-> 700, mid |-> 300, high |-> 200, is_building |-> FALSE,
       is_drop |-> FALSE, genre |-> "edm"],
      [bpm |-> 128000, intensity |-> 800, audio_active |-> TRUE,
       bass |-> 1000, mid |-> 400, high |-> 200, is_building |-> FALSE,
       is_drop |-> TRUE, genre |-> "edm"],
      [bpm |-> 128000, intensity |-> 5, audio_active |-> FALSE,
       bass |-> 2, mid |-> 1, high |-> 0, is_building |-> FALSE,
       is_drop |-> FALSE, genre |-> "edm"] }

extractor_private ==
    <<now, last_beat_time, beat_timestamps, intensity_history, silent_frames,
      intensity_trend, build_age, drop_age, genre_hints, loop_state,
      reader_state>>

\* _audio_loop, seen from the engines: an iteration ended and the fields
\* get_state reads now hold the snapshot f.
Publish(f) ==
    /\ current_bpm' = f.bpm
    /\ current_intensity' = f.intensity
    /\ audio_active' = f.audio_active
    /\ bass_intensity' = f.bass
    /\ mid_intensity' = f.mid
    /\ high_intensity' = f.high
    /\ is_building' = f.is_building
    /\ is_drop' = f.is_drop
    /\ detected_genre' = f.genre

ExtractorPublishes(f) ==
    /\ GetState # f
    /\ Publish(f)
    /\ last_op' = "extractor"
    /\ UNCHANGED <<extractor_private, beat_queue, engine_vars, thread_vars>>
    /\ UNCHANGED <<beat_env, intensity_calls, last_rms, presence_env,
                   trend_env, genre_env, read_errors, divider_env, dj, dj_env, fade_triggers>>

\* _handle_beat lines 168-172, seen from the engines: one more beat event
\* is on the queue.
ExtractorPutsBeat ==
    /\ Len(beat_queue) < MaxQueue
    /\ beat_queue' = Append(beat_queue,
           [timestamp |-> now, bpm |-> current_bpm,
            intensity |-> current_intensity])
    /\ pending' = TRUE
    /\ last_op' = "extractor"
    /\ UNCHANGED <<extractor_private, current_bpm, current_intensity,
                   audio_active, freq_state, is_building, is_drop,
                   detected_genre>>
    /\ UNCHANGED <<controller, adv, simple, data, since_update, ticks,
                   control_calls, last_call, thread_vars>>
    /\ UNCHANGED <<beat_env, intensity_calls, last_rms, presence_env,
                   trend_env, genre_env, read_errors, divider_env, dj, dj_env, fade_triggers>>

\* What no action of a controller changes.
engine_env ==
    <<extractor_private, current_bpm, current_intensity, audio_active,
      freq_state, is_building, is_drop, detected_genre, beat_env,
      intensity_calls, last_rms, presence_env, trend_env, genre_env, read_errors, divider_env, dj, dj_env, fade_triggers>>

----------------------------------------------------------------------------
\* SimpleDmxController (app/lighting_simple.py) on BaseDmxController
\* (app/lighting_base.py)

COLORS_FULL ==
    << <<255, 0, 0>>, <<0, 255, 0>>, <<0, 0, 255>>, <<255, 255, 0>>,
       <<255, 0, 255>>, <<0, 255, 255>>, <<255, 128, 0>>, <<128, 0, 255>>,
       <<255, 64, 128>>, <<0, 255, 128>>, <<255, 255, 255>> >>

COLORS_COOL ==
    << <<0, 255, 0>>, <<0, 0, 255>>, <<0, 255, 255>>, <<128, 0, 255>>,
       <<0, 255, 128>>, <<64, 128, 255>>, <<255, 255, 255>>,
       <<200, 255, 200>>, <<200, 200, 255>>, <<255, 255, 0>> >>

\* The programs of PROGRAMS whose rendering is part of this model.
BouncePrograms ==
    {"Bounce (Same Color)", "Bounce (Different Colors)", "Bounce (Discrete)"}

\* The names of PROGRAMS the model selects: the bounce programs and the
\* program that picks its sub-program by itself.
PROGRAMS == BouncePrograms \cup {"DJ Mode"}

\* int(1000 / config.UPDATE_FPS), ms
update_interval == 1000 \div UPDATE_FPS

\* The time one iteration of the base loop takes, ms: the 1 ms sleep plus
\* what the host adds. With 11 ms a frame is due every third iteration, with
\* 33 ms in every iteration.
IterationTimes == {11, 33}

\* _init_light_states, the part the bounce programs read
InitLightStates(s) ==
    [s EXCEPT !.bounce_colors = [i \in 1..MAX_LIGHTS |-> <<255, 0, 0>>]]

\* SimpleDmxController.__init__; beat_occurred and active_lights are set by
\* BaseDmxController.__init__.
SimpleInit ==
    InitLightStates(
        [active_lights |-> DEFAULT_LIGHT_COUNT,
         beat_occurred |-> FALSE,
         program |-> "Bounce (Same Color)",
         bpm_division |-> 1,
         dimming |-> 1000,
         cool_colors_only |-> FALSE,
         bounce_position |-> 0,
         bounce_direction |-> 1,
         bounce_color_index |-> 0,
         bounce_colors |-> <<>>,
         beat_counter |-> 0])

\* _get_color_palette
GetColorPalette(s) == IF s.cool_colors_only THEN COLORS_COOL ELSE COLORS_FULL

\* _process_beats: the flag is cleared, then set if the queue held an event;
\* the queue is left empty.
ProcessBeats(s, queue) == [s EXCEPT !.beat_occurred = (queue # <<>>)]

\* A divider that counts every tick
ShouldTriggerEffect_EveryTick(s) ==
    IF s.beat_counter + 1 >= s.bpm_division
    THEN [fire |-> s.beat_occurred, after |-> [s EXCEPT !.beat_counter = 0]]
    ELSE [fire |-> FALSE,
          after |-> [s EXCEPT !.beat_counter = s.beat_counter + 1]]

\* _should_trigger_effect: the result and the controller after the call.
ShouldTriggerEffect(s) ==
    IF ~s.beat_occurred
    THEN [fire |-> FALSE, after |-> s]
    ELSE IF s.beat_counter + 1 >= s.bpm_division
         THEN [fire |-> TRUE, after |-> [s EXCEPT !.beat_counter = 0]]
         ELSE [fire |-> FALSE,
               after |-> [s EXCEPT !.beat_counter = s.beat_counter + 1]]

\* The bounce step of the three bounce programs: the position moves and
\* turns round at the ends; new_index says whether the colour index moves on
\* at a turn (Bounce (Same Color) only).
BounceMove(s, new_index) ==
    LET moved == s.bounce_position + s.bounce_direction
        next_index == IF new_index
                      THEN (s.bounce_color_index + 1) % Len(GetColorPalette(s))
                      ELSE s.bounce_color_index
    IN  IF moved >= s.active_lights - 1
        THEN [s EXCEPT !.bounce_position = s.active_lights - 1,
                       !.bounce_direction = -1,
                       !.bounce_color_index = next_index]
        ELSE IF moved <= 0
             THEN [s EXCEPT !.bounce_position = 0,
                            !.bounce_direction = 1,
                            !.bounce_color_index = next_index]
             ELSE [s EXCEPT !.bounce_position = moved]

\* _set_light_color: the channel values of one fixture for colour c and a
\* brightness in thousandths.
SetLightColor(c, brightness) ==
    [dimmer |-> (brightness * 255) \div 1000,
     red |-> Min(255, (c[1] * brightness) \div 1000),
     green |-> Min(255, (c[2] * brightness) \div 1000),
     blue |-> Min(255, (c[3] * brightness) \div 1000),
     strobe |-> 0, mode |-> 0, speed |-> 0]

Abs(x) == IF x < 0 THEN -x ELSE x

\* The brightness of a light at a distance from the bounce position,
\* before dimming.
BounceBrightness(distance) ==
    IF distance = 0 THEN 1000
    ELSE IF distance = 1 THEN 500
    ELSE IF distance = 2 THEN 200
    ELSE 50

Dimmed(brightness, s) == (brightness * s.dimming) \div 1000

\* _program_bounce_same: the controller after the call and the frame.
ProgramBounceSame(s) ==
    LET trig == ShouldTriggerEffect(s)
        t == IF trig.fire THEN BounceMove(trig.after, TRUE) ELSE trig.after
        palette == GetColorPalette(t)
        current_color == palette[t.bounce_color_index + 1]
        next_color == palette[((t.bounce_color_index + 1) % Len(palette)) + 1]
        color(i) ==
            IF /\ Abs(i - t.bounce_position) = 0
               /\ \/ t.bounce_direction = 1 /\ i = t.active_lights - 1
                  \/ t.bounce_direction = -1 /\ i = 0
            THEN next_color
            ELSE current_color
    IN  [after |-> t,
         frame |-> WriteFixtures(
             [i \in 0..(t.active_lights - 1) |->
                 SetLightColor(color(i),
                     Dimmed(BounceBrightness(Abs(i - t.bounce_position)), t))],
             t.active_lights)]

\* The step shared by _program_bounce_different and _program_bounce_discrete:
\* rnd is the draw of random.choice(palette).
BounceRecolour(s, rnd) ==
    LET trig == ShouldTriggerEffect(s)
        m == BounceMove(trig.after, FALSE)
        palette == GetColorPalette(m)
    IN  IF trig.fire
        THEN [m EXCEPT !.bounce_colors[m.bounce_position + 1] =
                           palette[(rnd % Len(palette)) + 1]]
        ELSE trig.after

\* _program_bounce_different
ProgramBounceDifferent(s, rnd) ==
    LET t == BounceRecolour(s, rnd)
    IN  [after |-> t,
         frame |-> WriteFixtures(
             [i \in 0..(t.active_lights - 1) |->
                 SetLightColor(t.bounce_colors[i + 1],
                     Dimmed(BounceBrightness(Abs(i - t.bounce_position)), t))],
             t.active_lights)]

\* _program_bounce_discrete
ProgramBounceDiscrete(s, rnd) ==
    LET t == BounceRecolour(s, rnd)
    IN  [after |-> t,
         frame |-> WriteFixtures(
             [i \in 0..(t.active_lights - 1) |->
                 IF i = t.bounce_position
                 THEN SetLightColor(t.bounce_colors[i + 1], t.dimming)
                 ELSE SetLightColor(<<0, 0, 0>>, 0)],
             t.active_lights)]

\* SimpleDmxController._compute_dmx_frame: audio inactive returns the
\* all-zero frame before any program runs.
SimpleComputeDmxFrame(s, f, rnd) ==
    IF ~f.audio_active
    THEN [after |-> s, frame |-> ZeroFrame]
    ELSE IF s.program = "Bounce (Same Color)" THEN ProgramBounceSame(s)
    ELSE IF s.program = "Bounce (Different Colors)"
         THEN ProgramBounceDifferent(s, rnd)
    ELSE ProgramBounceDiscrete(s, rnd)

\* The draws of random.choice that are explored.
SimpleDraws == {1, 4}

\* One iteration of BaseDmxController._dmx_loop that took dt ms: the beats
\* are processed, and the frame is computed and sent when update_interval
\* has passed since the last one.
LoopBody(dt, rnd) ==
    /\ controller = "simple"
    /\ LET since == Min(update_interval, since_update + dt)
           s == ProcessBeats(simple, beat_queue)
           r == SimpleComputeDmxFrame(s, GetState, rnd)
       IN  /\ beat_queue' = <<>>
           /\ IF since >= update_interval
              THEN /\ simple' = r.after
                   /\ data' = r.frame
                   /\ since_update' = 0
                   /\ ticks' = ticks + 1
                   /\ pending' = FALSE
                   /\ last_op' = "simple_frame"
              ELSE /\ simple' = s
                   /\ since_update' = since
                   /\ last_op' = "simple_iteration"
                   /\ UNCHANGED <<data, ticks, pending>>
    /\ UNCHANGED <<controller, adv, control_calls, last_call, engine_env>>

SimpleLoopIteration(dt, rnd) ==
    /\ ticks < MaxTicks
    /\ LoopBody(dt, rnd)
    /\ UNCHANGED thread_vars

\* set_program with a name of PROGRAMS
\* (mutant) a setter that takes any name
KnownName_Any(name, valid) == TRUE

\* if name in valid: the test the setters of a name start with
KnownName(name, valid) == name \in valid

SimpleSetProgram(program_name) ==
    /\ controller = "simple"
    /\ simple' = IF KnownName(program_name, PROGRAMS)
                 THEN InitLightStates([simple EXCEPT !.program = program_name])
                 ELSE simple
    /\ control_calls' = control_calls + 1
    /\ last_op' = "control_call"
    /\ last_call' = [name |-> "set_program", arg |-> program_name]
    /\ UNCHANGED <<controller, adv, data, since_update, ticks, pending,
                   beat_queue, engine_env>>
    /\ UNCHANGED thread_vars

\* set_bpm_division
SimpleSetBpmDivision(division) ==
    /\ controller = "simple"
    /\ simple' = [simple EXCEPT !.bpm_division = Max(1, Min(16, division))]
    /\ control_calls' = control_calls + 1
    /\ last_op' = "control_call"
    /\ last_call' = [name |-> "set_bpm_division", arg |-> division]
    /\ UNCHANGED <<controller, adv, data, since_update, ticks, pending,
                   beat_queue, engine_env>>
    /\ UNCHANGED thread_vars

\* set_dimming
SimpleSetDimming(value) ==
    /\ controller = "simple"
    /\ simple' = [simple EXCEPT !.dimming = Max(0, Min(1000, value))]
    /\ control_calls' = control_calls + 1
    /\ last_op' = "control_call"
    /\ last_call' = [name |-> "set_dimming", arg |-> value]
    /\ UNCHANGED <<controller, adv, data, since_update, ticks, pending,
                   beat_queue, engine_env>>
    /\ UNCHANGED thread_vars

\* BaseDmxController.set_light_count
SimpleSetLightCount(count) ==
    /\ controller = "simple"
    /\ simple' = [simple EXCEPT !.active_lights = ClampLightCount(count)]
    /\ control_calls' = control_calls + 1
    /\ last_op' = "control_call"
    /\ last_call' = [name |-> "set_light_count", arg |-> count]
    /\ UNCHANGED <<controller, adv, data, since_update, ticks, pending,
                   beat_queue, engine_env>>
    /\ UNCHANGED thread_vars

----------------------------------------------------------------------------
\* DmxController, the Advanced engine (app/lighting.py)
\* Parameters, progress and audio levels are in thousandths, colours are
\* <<r, g, b>> with components 0..255, light i of the code is index i + 1.

SMOOTH_COLOR_PALETTE ==
    << <<255, 0, 0>>, <<255, 64, 0>>, <<255, 128, 0>>, <<255, 192, 0>>,
       <<255, 255, 0>>, <<192, 255, 0>>, <<0, 255, 0>>, <<0, 255, 128>>,
       <<0, 255, 255>>, <<0, 128, 255>>, <<0, 0, 255>>, <<128, 0, 255>>,
       <<255, 0, 255>>, <<255, 0, 128>> >>

WARM_COLOR_PALETTE ==
    << <<255, 0, 0>>, <<255, 32, 0>>, <<255, 64, 0>>, <<255, 96, 0>>,
       <<255, 128, 0>>, <<255, 160, 0>>, <<255, 192, 0>>, <<255, 224, 0>>,
       <<255, 255, 0>>, <<255, 255, 64>>, <<255, 192, 128>>,
       <<255, 128, 64>> >>

\* Cool color palette (blues, purples, cyans)
COOL_COLOR_PALETTE ==
    << <<0, 0, 255>>, <<0, 64, 255>>, <<0, 128, 255>>, <<0, 192, 255>>,
       <<0, 255, 255>>, <<0, 255, 192>>, <<0, 255, 128>>, <<64, 128, 255>>,
       <<128, 0, 255>>, <<192, 0, 255>>, <<255, 0, 255>>, <<255, 0, 192>> >>

\* COLOR_THEMES, the palette of every theme in the order of the source
COLOR_THEMES ==
    [default |-> SMOOTH_COLOR_PALETTE,
     sunset |->
       << <<128, 0, 128>>, <<192, 0, 128>>, <<255, 0, 128>>,
          <<255, 64, 128>>, <<255, 128, 64>>, <<255, 192, 0>>,
          <<255, 128, 0>>, <<255, 64, 0>>, <<255, 0, 0>>, <<192, 0, 0>> >>,
     ocean |->
       << <<0, 0, 64>>, <<0, 0, 128>>, <<0, 64, 192>>, <<0, 128, 255>>,
          <<0, 192, 255>>, <<0, 255, 255>>, <<64, 255, 192>>,
          <<128, 255, 128>>, <<0, 255, 128>>, <<0, 192, 128>> >>,
     fire |->
       << <<64, 0, 0>>, <<128, 0, 0>>, <<192, 0, 0>>, <<255, 0, 0>>,
          <<255, 64, 0>>, <<255, 128, 0>>, <<255, 192, 0>>,
          <<255, 255, 0>>, <<255, 255, 128>>, <<255, 255, 255>> >>,
     forest |->
       << <<0, 64, 0>>, <<0, 96, 0>>, <<0, 128, 0>>, <<0, 192, 0>>,
          <<64, 255, 0>>, <<128, 255, 0>>, <<192, 255, 0>>,
          <<255, 255, 0>>, <<192, 192, 0>>, <<128, 128, 0>> >>,
     galaxy |->
       << <<64, 0, 128>>, <<96, 0, 192>>, <<128, 0, 255>>, <<64, 64, 255>>,
          <<0, 128, 255>>, <<0, 192, 255>>, <<0, 255, 255>>,
          <<128, 255, 255>>, <<192, 192, 255>>, <<255, 255, 255>> >>,
     monochrome |->
       << <<255, 255, 255>>, <<224, 224, 224>>, <<192, 192, 192>>,
          <<160, 160, 160>>, <<128, 128, 128>>, <<96, 96, 96>>,
          <<64, 64, 64>>, <<32, 32, 32>>, <<64, 64, 64>>,
          <<128, 128, 128>> >>,
     warm |-> WARM_COLOR_PALETTE,
     cool |-> COOL_COLOR_PALETTE]

\* config.COLOR_THEMES.get(self.color_theme, config.SMOOTH_COLOR_PALETTE)
ThemePalette(theme) ==
    IF theme \in DOMAIN COLOR_THEMES THEN COLOR_THEMES[theme]
    ELSE SMOOTH_COLOR_PALETTE

\* _do_initialize_colors: the colour of light i
InitialColor(p, i) ==
    LET palette == ThemePalette(p.color_theme)
        step == Max(1, (Len(palette) * p.rainbow_level)
                           \div (1000 * Max(1, p.active_lights)))
        idx == IF p.rainbow_level < 200 THEN 0 ELSE (i * step) % Len(palette)
    IN  IF i < p.active_lights THEN palette[idx + 1] ELSE <<0, 0, 0>>

DoInitializeColors(p) ==
    [p EXCEPT !.target_colors = [k \in 1..MAX_LIGHTS |-> InitialColor(p, k - 1)],
              !.current_colors = [k \in 1..MAX_LIGHTS |-> InitialColor(p, k - 1)]]

\* DmxController.__init__, which ends with _initialize_colors.
\* last_color_change is 0 until the first colour change and 1 afterwards.
AdvInit ==
    DoInitializeColors(
        [active_lights |-> DEFAULT_LIGHT_COUNT,
         target_colors |-> [k \in 1..MAX_LIGHTS |-> <<0, 0, 0>>],
         current_colors |-> [k \in 1..MAX_LIGHTS |-> <<0, 0, 0>>],
         color_fade_progress |-> [k \in 1..MAX_LIGHTS |-> 0],
         last_color_change |-> 0,
         smoothness |-> 500,
         rainbow_level |-> 500,
         brightness_control |-> 500,
         strobe_level |-> 0,
         beat_sensitivity |-> 500,
         mood_match |-> FALSE,
         pattern |-> "wave",
         bpm_sync |-> 1000,
         frequency_mode |-> FALSE,
         color_theme |-> "default",
         effect_mode |-> "none",
         echo_length |-> 500,
         chaos_level |-> 0,
         chaos_colors |-> [k \in 1..MAX_LIGHTS |-> <<255, 255, 255>>],
         ambient_mode |-> FALSE,
         genre_auto |-> FALSE,
         spectrum_mode |-> FALSE])

\* (mutant) ambient_mode follows the genre of the tick
ApplyGenreAdaptation_Unlatched(p, genre) ==
    IF ~p.genre_auto THEN p
    ELSE [p EXCEPT !.ambient_mode = (genre = "ambient")]

\* _apply_genre_adaptation
ApplyGenreAdaptation(p, genre) ==
    IF ~p.genre_auto THEN p
    ELSE IF genre = "edm"
         THEN [p EXCEPT !.smoothness = 200, !.beat_sensitivity = 800,
                        !.strobe_level = 300]
    ELSE IF genre = "hiphop"
         THEN [p EXCEPT !.smoothness = 400, !.beat_sensitivity = 900,
                        !.rainbow_level = 300]
    ELSE IF genre = "rock"
         THEN [p EXCEPT !.smoothness = 500, !.beat_sensitivity = 600,
                        !.color_theme = IF @ = "default" THEN "warm" ELSE @]
    ELSE IF genre = "jazz"
         THEN [p EXCEPT !.smoothness = 800, !.beat_sensitivity = 300,
                        !.rainbow_level = 200]
    ELSE IF genre = "ambient"
         THEN [p EXCEPT !.smoothness = 950, !.beat_sensitivity = 100,
                        !.ambient_mode = TRUE]
    ELSE p

\* (mutant) the two parameters forced in every tick
ForceDrop_Always(p, drop) ==
    [p EXCEPT !.beat_sensitivity = 1000, !.strobe_level = 500]

\* _compute_dmx_frame lines 582-586: the drop forces two parameters
ForceDrop(p, drop) ==
    IF drop THEN [p EXCEPT !.beat_sensitivity = 1000, !.strobe_level = 500]
    ELSE p

\* _update_colors: change_on_beat of the branch the parameters select
ChangeOnBeat(p, beat_occurred, intensity) ==
    IF p.pattern = "swell" THEN FALSE
    ELSE IF p.spectrum_mode THEN FALSE
    ELSE IF p.rainbow_level < 200 THEN FALSE
    ELSE IF p.rainbow_level < 500 THEN beat_occurred /\ intensity > 600
    ELSE IF p.rainbow_level < 800 THEN beat_occurred /\ intensity > 400
    ELSE beat_occurred

\* The index of the first palette entry equal to colour c, 0 if there is none.
PaletteIndex(palette, c) ==
    LET hits == {k \in 1..Len(palette) : palette[k] = c}
    IN  IF hits = {} THEN 0
        ELSE (CHOOSE k \in hits : \A j \in hits : k <= j) - 1

\* The first tier with its bound moved up
SingleColorTier_Wide(level) == level < 250

\* line 937: "if self.rainbow_level < 0.2"
SingleColorTier(level) == level < 200

\* _select_new_colors: the palette index light i gets, rnd being the random
\* draw. The per-light draws of the third tier and the sample of the fourth
\* are rnd + i.
TargetIndexIn(palette, p, i, rnd) ==
    LET size == Len(palette)
    IN  IF SingleColorTier(p.rainbow_level)
        THEN (PaletteIndex(palette, p.target_colors[1]) + 1) % size
        ELSE IF p.rainbow_level < 500
        THEN LET spread == Max(1, (size * 3) \div 10)
                 offset == (i * spread) \div Max(1, p.active_lights)
             IN  ((rnd % size) + offset) % size
        ELSE IF p.rainbow_level < 800
        THEN LET spread == Max(1, size \div 3)
             IN  (i * spread + ((rnd + i) % spread)) % size
        ELSE LET needed == Min(p.active_lights, size)
             IN  (rnd + (i % needed)) % size

TargetIndex(p, i, rnd) == TargetIndexIn(ThemePalette(p.color_theme), p, i, rnd)

\* if palette_size == 0: palette = [(255, 0, 0)]
SafePalette(palette) ==
    IF Len(palette) = 0 THEN << <<255, 0, 0>> >> ELSE palette

\* The try block of _select_new_colors over palette, as far as light
\* `lights`: the lights below it get their new target and fade progress 0.
SelectFrom(p, palette, rnd, lights) ==
    [p EXCEPT
        !.target_colors =
            [k \in 1..MAX_LIGHTS |->
                IF k - 1 < lights
                THEN palette[TargetIndexIn(palette, p, k - 1, rnd) + 1]
                ELSE p.target_colors[k]],
        !.color_fade_progress =
            [k \in 1..MAX_LIGHTS |->
                IF k - 1 < lights THEN 0
                ELSE p.color_fade_progress[k]]]

SelectNewColors(p, rnd) ==
    SelectFrom(p, SafePalette(ThemePalette(p.color_theme)), rnd,
               p.active_lights)

\* (mutant) an except branch that leaves the lights as they are
SelectRaised_Nothing(p) == p

\* The except branch of _select_new_colors: every active light gets red as
\* target and fade progress 0.
SelectRaised(p) ==
    [p EXCEPT
        !.target_colors =
            [k \in 1..MAX_LIGHTS |->
                IF k - 1 < p.active_lights THEN <<255, 0, 0>>
                ELSE p.target_colors[k]],
        !.color_fade_progress =
            [k \in 1..MAX_LIGHTS |->
                IF k - 1 < p.active_lights THEN 0
                ELSE p.color_fade_progress[k]]]

\* No statement of the try block raised
NotRaised == -1

\* _select_new_colors with `palette` the list COLOR_THEMES holds for the
\* theme; raised_at is NotRaised, or the number of lights the try block
\* had assigned when one of its statements raised.
SelectNewColorsOutcome(p, palette, rnd, raised_at) ==
    IF raised_at = NotRaised
    THEN SelectFrom(p, SafePalette(palette), rnd, p.active_lights)
    ELSE SelectRaised(SelectFrom(p, SafePalette(palette), rnd,
                                 Min(raised_at, p.active_lights)))

\* 0.5 - 0.5 * cos(progress * pi), in thousandths, at every tenth of the
\* progress; linear in between.
EaseTable == <<0, 24, 95, 206, 345, 500, 655, 794, 905, 976, 1000>>

EaseInOut(progress) ==
    LET k == progress \div 100
        r == progress % 100
    IN  IF k >= 10 THEN 1000
        ELSE EaseTable[k + 1]
                 + ((EaseTable[k + 2] - EaseTable[k + 1]) * r) \div 100

\* _update_color_fades: fade_speed
FadeSpeed(p) ==
    LET bpm_factor == Max(100, p.bpm_sync)
        fade_time == 100 + (p.smoothness * 1900) \div 1000
    IN  (1000 * bpm_factor) \div (fade_time * UPDATE_FPS)

\* int(current + (target - current) * smooth_progress)
FadeStep(current, target, smooth_progress) ==
    (current * 1000 + (target - current) * smooth_progress) \div 1000

\* (mutant) the colour interpolated with the progress before its increment
UpdateColorFades_Late(p) ==
    LET progress(k) == Min(1000, p.color_fade_progress[k] + FadeSpeed(p))
        moving(k) == k - 1 < p.active_lights /\ p.color_fade_progress[k] < 1000
    IN  [p EXCEPT
            !.color_fade_progress =
                [k \in 1..MAX_LIGHTS |->
                    IF moving(k) THEN progress(k) ELSE p.color_fade_progress[k]],
            !.current_colors =
                [k \in 1..MAX_LIGHTS |->
                    IF moving(k)
                    THEN [c \in 1..3 |->
                             FadeStep(p.current_colors[k][c],
                                      p.target_colors[k][c],
                                      EaseInOut(p.color_fade_progress[k]))]
                    ELSE p.current_colors[k]]]

UpdateColorFades(p) ==
    LET progress(k) == Min(1000, p.color_fade_progress[k] + FadeSpeed(p))
        moving(k) == k - 1 < p.active_lights /\ p.color_fade_progress[k] < 1000
    IN  [p EXCEPT
            !.color_fade_progress =
                [k \in 1..MAX_LIGHTS |->
                    IF moving(k) THEN progress(k) ELSE p.color_fade_progress[k]],
            !.current_colors =
                [k \in 1..MAX_LIGHTS |->
                    IF moving(k)
                    THEN [c \in 1..3 |->
                             FadeStep(p.current_colors[k][c],
                                      p.target_colors[k][c],
                                      EaseInOut(progress(k)))]
                    ELSE p.current_colors[k]]]

\* _update_colors with the lock acquired. inp.time_to_change says whether
\* change_interval has passed since last_color_change; it has on the first
\* call, last_color_change being 0.
UpdateColors(p, beat_occurred, intensity, inp) ==
    LET time_to_change == p.last_color_change = 0 \/ inp.time_to_change
    IN  IF time_to_change \/ ChangeOnBeat(p, beat_occurred, intensity)
        THEN UpdateColorFades(
                 SelectNewColors([p EXCEPT !.last_color_change = 1], inp.rnd))
        ELSE UpdateColorFades(p)

\* int(c * 0.3) for each component
Scaled30(c) == [k \in 1..3 |-> (c[k] * 3) \div 10]

\* _apply_pattern with pattern 'sync', lines 790-792
SyncColor_Next(p, i) == p.current_colors[((i + 1) % MAX_LIGHTS) + 1]

SyncColor(p, i) == p.current_colors[i + 1]

\* _apply_pattern for light i; inp.wave_factor and inp.beat_phase are what
\* the clock makes of the sine of the wave and of int(current_time * 2) % 2.
ApplyPattern(p, i, inp) ==
    LET cc(j) == p.current_colors[j + 1]
    IN  IF p.pattern = "sync" THEN SyncColor(p, i)
        ELSE IF p.pattern = "wave"
        THEN LET next_idx == (i + 1) % Max(1, p.active_lights)
             IN  [k \in 1..3 |->
                     (cc(i)[k] * (1000 - inp.wave_factor)
                          + cc(next_idx)[k] * inp.wave_factor) \div 1000]
        ELSE IF p.pattern = "center"
        THEN LET center_idx == p.active_lights \div 2
                 delay_frames == (10 * p.smoothness) \div 1000
             IN  IF p.active_lights % 2 = 1 /\ i = center_idx
                 THEN cc(center_idx)
                 ELSE IF /\ p.active_lights % 2 = 0
                         /\ (i = center_idx \/ i = center_idx - 1)
                 THEN cc(i)
                 ELSE IF delay_frames = 0 THEN cc(center_idx) ELSE cc(i)
        ELSE IF p.pattern = "alternate"
        THEN IF p.active_lights <= 2
             THEN IF inp.beat_phase = 0 THEN cc(i) ELSE Scaled30(cc(i))
             ELSE IF i % 2 = inp.beat_phase THEN cc(i) ELSE Scaled30(cc(i))
        ELSE IF p.pattern = "mirror"
        THEN IF p.active_lights = 1 THEN cc(0)
             ELSE IF 2 * i < p.active_lights THEN cc(i)
             ELSE cc(p.active_lights - 1 - i)
        ELSE cc(i)

\* _apply_frequency_colors
ApplyFrequencyColors(p, c, f) ==
    IF ~p.frequency_mode THEN c
    ELSE << Min(255, (c[1] * 300000 + f.bass * 255 * 700) \div 1000000),
            Min(255, (c[2] * 300000 + f.mid * 255 * 700) \div 1000000),
            Min(255, (c[3] * 300000 + f.high * 255 * 700) \div 1000000) >>

\* _apply_spectrum_colors
ApplySpectrumColors(f) ==
    LET r == (255 * (f.bass * 800 + f.mid * 200)) \div 1000000
        g == (255 * (f.mid * 700 + f.bass * 200 + f.high * 100)) \div 1000000
        b == (255 * (f.high * 800 + f.mid * 200)) \div 1000000
    IN  IF r + g + b < 100
        THEN << Min(255, Max(40, r)), Min(255, Max(40, g)),
                Min(255, Max(40, b)) >>
        ELSE << Min(255, r), Min(255, g), Min(255, b) >>

\* _apply_mood_adjustment
ApplyMoodAdjustment(c, intensity) ==
    LET clamp(x) == Max(0, Min(255, x))
    IN  IF intensity < 300
        THEN LET cool_factor == 1000 - (intensity * 1000) \div 300
             IN  << clamp((c[1] * (2000 - cool_factor)) \div 2000),
                    clamp((c[2] * (10000 - 3 * cool_factor)) \div 10000),
                    clamp(Min(255, (c[3] * (2000 + cool_factor)) \div 2000)) >>
        ELSE IF intensity > 700
        THEN LET warm_factor == ((intensity - 700) * 1000) \div 300
             IN  << clamp(Min(255, (c[1] * (2000 + warm_factor)) \div 2000)),
                    clamp((c[2] * (10000 - warm_factor)) \div 10000),
                    clamp((c[3] * (2000 - warm_factor)) \div 2000) >>
        ELSE << clamp(c[1]), clamp(c[2]), clamp(c[3]) >>

\* The colour of light i after layers 1 to 3 (layers 4 and 5 leave it as it
\* is for effect_mode 'none' and chaos_level 0).
valid_effects ==
    {"none", "breathe", "sparkle", "chase", "pulse", "sweep", "firefly"}

\* _apply_special_effect for 'none' and 'breathe', the effect modes the
\* explored calls select; inp.breathe is (sin(current_time * speed) + 1) / 2.
ApplySpecialEffect(p, c, inp) ==
    IF p.effect_mode = "breathe"
    THEN LET factor == 500 + inp.breathe \div 2
         IN  <<(c[1] * factor) \div 1000, (c[2] * factor) \div 1000,
               (c[3] * factor) \div 1000>>
    ELSE c

\* _apply_chaos, the colour: with chaos on, the colour is blended with the
\* chaos colour of the light; inp.chaos_recolour says that the draw of line
\* 511 came out below chaos_level * 0.1 for light 0 in this tick, and
\* inp.chaos_color is the colour then drawn.
ChaosColor(p, i, inp) ==
    IF i = 0 /\ inp.chaos_recolour THEN inp.chaos_color
    ELSE p.chaos_colors[i + 1]

ApplyChaos(p, c, i, inp) ==
    IF p.chaos_level <= 0 THEN c
    ELSE LET blend == p.chaos_level \div 2
             cc == ChaosColor(p, i, inp)
         IN  <<(c[1] * (1000 - blend) + cc[1] * blend) \div 1000,
               (c[2] * (1000 - blend) + cc[2] * blend) \div 1000,
               (c[3] * (1000 - blend) + cc[3] * blend) \div 1000>>

\* _apply_chaos, the pattern: inp.chaos_switch says that the draw of line
\* 526 came out below chaos_level * 0.05 while light 0 was rendered, and
\* inp.chaos_pattern is the pattern random.choice then returned.
ChaosSwitches(p, beat_occurred, inp) ==
    p.chaos_level > 0 /\ beat_occurred /\ inp.chaos_switch

\* The controller after the fixture loop: the chaos colour and the pattern
\* the loop assigned.
AfterChaos(p, beat_occurred, inp) ==
    [p EXCEPT !.pattern = IF ChaosSwitches(p, beat_occurred, inp)
                          THEN inp.chaos_pattern ELSE @,
              !.chaos_colors = IF p.chaos_level > 0
                               THEN [@ EXCEPT ![1] = ChaosColor(p, 0, inp)]
                               ELSE @]

\* Layers 1 to 5 of the colour of light i
LayeredColor(p, i, f, inp) ==
    LET base == IF p.spectrum_mode THEN ApplySpectrumColors(f)
                ELSE ApplyFrequencyColors(p, ApplyPattern(p, i, inp), f)
        mood == IF p.mood_match THEN ApplyMoodAdjustment(base, f.intensity)
                ELSE base
    IN  ApplyChaos(p, ApplySpecialEffect(p, mood, inp), i, inp)

\* beat_boost in the tick the beat was drained in (time_since_beat is 0 at
\* the resolution of the model, so the whole beat_response applies)
BeatBoost(p, beat_occurred) ==
    LET base_response == 50 + (p.beat_sensitivity * 750) \div 1000
    IN  IF ~beat_occurred \/ p.spectrum_mode THEN 0
        ELSE IF p.smoothness < 500
        THEN (base_response * (1000 - (p.smoothness * 300) \div 1000)) \div 1000
        ELSE (base_response * (700 - ((p.smoothness - 500) * 400) \div 1000))
                 \div 1000

\* settings['brightness_base'], in thousandths
brightness_base == 600

\* brightness before the master control, by mode
ModeBrightness(p, f, beat_occurred, inp) ==
    IF p.spectrum_mode
    THEN Min(1000, (((f.bass * 500 + f.mid * 300 + f.high * 200) \div 1000)
                        * brightness_base) \div 1000)
    ELSE IF p.pattern = "swell"
    THEN Min(1000, ((200 + f.intensity \div 2 + (inp.swell_factor * 300) \div 1000)
                        * brightness_base) \div 1000)
    ELSE Min(1000, (f.intensity * (500 + p.beat_sensitivity) * brightness_base)
                        \div 1000000 + BeatBoost(p, beat_occurred))

\* brightness_multiplier of the master brightness control
BrightnessMultiplier(p) ==
    IF p.brightness_control < 500
    THEN 50 + (p.brightness_control * 2 * 950) \div 1000
    ELSE 1000 + ((p.brightness_control - 500) * 2 * 200) \div 1000

\* The brightness without the floor
BrightnessFloor_None(brightness) == brightness

\* max(0.01, brightness)
BrightnessFloor(brightness) == Max(10, brightness)

\* The brightness of the rendered fixtures: the multiplier, the floor and
\* the clamp to 1.0.
Brightness(p, f, beat_occurred, inp) ==
    Min(1000, BrightnessFloor(
        (ModeBrightness(p, f, beat_occurred, inp) * BrightnessMultiplier(p))
            \div 1000))

\* "if value > 0: value = max(1, value)" then min(255, value)
ChannelByte(value) == Min(255, IF value > 0 THEN Max(1, value) ELSE value)

\* The strobe channel; inp.strobe_gate is (current_time * strobe_rate) % 1.0
\* < 0.5.
StrobeByte(p, inp) ==
    IF p.strobe_level > 100 /\ inp.strobe_gate
    THEN Min(255, (p.strobe_level * 255) \div 1000)
    ELSE 0

\* The per-fixture loop of _compute_dmx_frame (lines 604-760). Light 0
\* takes its colour under the pattern the tick began with; its brightness,
\* computed after layer 5, and the lights after it are under the pattern
\* the chaos layer may have assigned.
RenderFixtures(p, f, beat_occurred, inp) ==
    LET q == [p EXCEPT !.pattern = AfterChaos(p, beat_occurred, inp).pattern]
    IN  WriteFixtures(
            [i \in 0..(p.active_lights - 1) |->
                LET c == LayeredColor(IF i = 0 THEN p ELSE q, i, f, inp)
                IN  [dimmer |->
                         ChannelByte((Brightness(q, f, beat_occurred, inp) * 255)
                                         \div 1000),
                     red |-> ChannelByte(c[1]),
                     green |-> ChannelByte(c[2]),
                     blue |-> ChannelByte(c[3]),
                     strobe |-> StrobeByte(q, inp),
                     mode |-> 0, speed |-> 0]],
            p.active_lights)

\* The blackout test written with the condition inverted on ambient mode
Blackout_AmbientOnly(p, f) == p.ambient_mode /\ ~f.audio_active

\* line 576: "if not self.ambient_mode and not audio_active"
Blackout(p, f) == ~p.ambient_mode /\ ~f.audio_active

\* The locals of a tick that is not under way
NoTick == [f |-> <<>>, beat_occurred |-> FALSE, inp |-> <<>>]

\* What the clock and the random generator contribute to one tick.
TickInputs ==
    { [time_to_change |-> FALSE, rnd |-> 0, wave_factor |-> 0,
       beat_phase |-> 0, swell_factor |-> 0, strobe_gate |-> TRUE,
       breathe |-> 0, chaos_recolour |-> FALSE, chaos_color |-> <<0, 0, 0>>,
       chaos_switch |-> FALSE, chaos_pattern |-> "sync"],
      [time_to_change |-> TRUE, rnd |-> 5, wave_factor |-> 500,
       beat_phase |-> 1, swell_factor |-> 1000, strobe_gate |-> FALSE,
       breathe |-> 1000, chaos_recolour |-> TRUE, chaos_color |-> <<0, 0, 255>>,
       chaos_switch |-> TRUE, chaos_pattern |-> "mirror"] }

\* _send_dmx_frame: DmxController._compute_dmx_frame and the send. The
\* blackout returns before the genre adaptation, the drop and the beat
\* queue are looked at.
AdvancedTick(inp) ==
    /\ controller = "advanced"
    /\ ticks < MaxTicks
    /\ LET f == GetState
       IN  IF Blackout(adv, f)
           THEN /\ data' = ZeroFrame
                /\ UNCHANGED <<adv, beat_queue, pending>>
           ELSE LET beat_occurred == beat_queue # <<>>
                    p == UpdateColors(
                             ForceDrop(ApplyGenreAdaptation(adv, f.genre),
                                       f.is_drop),
                             beat_occurred, f.intensity, inp)
                IN  /\ adv' = AfterChaos(p, beat_occurred, inp)
                    /\ beat_queue' = <<>>
                    /\ pending' = FALSE
                    /\ data' = RenderFixtures(p, f, beat_occurred, inp)
    /\ ticks' = ticks + 1
    /\ last_op' = "advanced_tick"
    /\ UNCHANGED <<controller, simple, since_update, control_calls, last_call,
                   engine_env>>
    /\ UNCHANGED thread_vars

\* A setter of the control surface that found control_lock free: the
\* controller becomes p.
AdvSet(p, name, arg) ==
    /\ controller = "advanced"
    /\ adv' = p
    /\ control_calls' = control_calls + 1
    /\ last_op' = "control_call"
    /\ last_call' = [name |-> name, arg |-> arg]
    /\ UNCHANGED <<controller, simple, data, since_update, ticks, pending,
                   beat_queue, engine_env>>
    /\ UNCHANGED thread_vars

\* (mutant) the clamp without its lower limit
ClampUnit_NoLower(value) == Min(1000, value)

\* max(0.0, min(1.0, value))
ClampUnit(value) == Max(0, Min(1000, value))

SetAmbientMode(enabled) ==
    AdvSet([adv EXCEPT !.ambient_mode = enabled],
           "set_ambient_mode", enabled)

SetGenreAuto(enabled) ==
    AdvSet([adv EXCEPT !.genre_auto = enabled],
           "set_genre_auto", enabled)

SetSpectrumMode(enabled) ==
    AdvSet([adv EXCEPT !.spectrum_mode = enabled],
           "set_spectrum_mode", enabled)

WithBrightness(p, value) ==
    [p EXCEPT !.brightness_control = ClampUnit(value)]

SetBrightness(value) ==
    AdvSet(WithBrightness(adv, value), "set_brightness", value)

valid_patterns == {"sync", "wave", "center", "alternate", "mirror", "swell"}

SetPattern(pattern_name) ==
    AdvSet(IF KnownName(pattern_name, valid_patterns)
           THEN [adv EXCEPT !.pattern = pattern_name]
           ELSE adv,
           "set_pattern", pattern_name)

SetColorTheme(theme_name) ==
    AdvSet(IF KnownName(theme_name, DOMAIN COLOR_THEMES)
           THEN DoInitializeColors([adv EXCEPT !.color_theme = theme_name])
           ELSE adv,
           "set_color_theme", theme_name)

SetEffectMode(effect_name) ==
    AdvSet(IF KnownName(effect_name, valid_effects)
           THEN [adv EXCEPT !.effect_mode = effect_name]
           ELSE adv,
           "set_effect_mode", effect_name)

\* set_light_count: the count is clamped and, if it changed, the colours
\* are initialised again.
WithLightCount(p, count) ==
    [p EXCEPT !.active_lights = ClampLightCount(count)]

SetLightCount(count) ==
    AdvSet(IF adv.active_lights # ClampLightCount(count)
           THEN DoInitializeColors(WithLightCount(adv, count))
           ELSE adv,
           "set_light_count", count)

\* start() of the controller the application runs
StartController(c) ==
    /\ controller = "none"
    /\ controller' = c
    /\ last_op' = "start"
    /\ UNCHANGED <<adv, simple, data, since_update, ticks, control_calls, pending,
                   last_call, beat_queue, engine_env>>
    /\ UNCHANGED thread_vars

WithSmoothness(p, value) == [p EXCEPT !.smoothness = ClampUnit(value)]

SetSmoothness(value) ==
    AdvSet(WithSmoothness(adv, value), "set_smoothness", value)

SetRainbowLevel(value) ==
    AdvSet([adv EXCEPT !.rainbow_level = ClampUnit(value)],
           "set_rainbow_level", value)

SetStrobeLevel(value) ==
    AdvSet([adv EXCEPT !.strobe_level = ClampUnit(value)],
           "set_strobe_level", value)

SetBeatSensitivity(value) ==
    AdvSet([adv EXCEPT !.beat_sensitivity = ClampUnit(value)],
           "set_beat_sensitivity", value)

\* max(0.0, min(2.0, value))
SetEchoLength(value) ==
    AdvSet([adv EXCEPT !.echo_length = Max(0, Min(2000, value))],
           "set_echo_length", value)

SetChaosLevel(value) ==
    AdvSet([adv EXCEPT !.chaos_level = ClampUnit(value)],
           "set_chaos_level", value)

\* max(0.1, min(2.0, value))
SetBpmSync(value) ==
    AdvSet([adv EXCEPT !.bpm_sync = Max(100, Min(2000, value))],
           "set_bpm_sync", value)

\* reset: the parameters return to their defaults and the colours are
\* initialised again, under the lock.
ResetParameters(p) ==
    [p EXCEPT !.smoothness = 500, !.rainbow_level = 500,
              !.brightness_control = 500, !.strobe_level = 0,
              !.beat_sensitivity = 500, !.bpm_sync = 1000,
              !.mood_match = FALSE, !.pattern = "wave",
              !.frequency_mode = FALSE, !.color_theme = "default",
              !.effect_mode = "none", !.echo_length = 500,
              !.chaos_level = 0, !.ambient_mode = FALSE,
              !.genre_auto = FALSE, !.spectrum_mode = FALSE,
              !.active_lights = DEFAULT_LIGHT_COUNT]

Reset == AdvSet(DoInitializeColors(ResetParameters(adv)),
           "reset", 0)

\* The calls of the control surface that are explored.
ControlCall ==
    /\ control_calls < MaxControlCalls
    /\ \/ \E b \in BOOLEAN : SetAmbientMode(b)
       \/ SetGenreAuto(TRUE)
       \/ SetSpectrumMode(TRUE)
       \/ \E n \in BouncePrograms : SimpleSetProgram(n)
       \/ SimpleSetLightCount(2)

\* Slider arguments, in thousandths: -5.0 and 5.0, one on each side of
\* every range
SliderValues == {-5000, 5000}

\* Count arguments of set_light_count and set_bpm_division
CountValues == {0, 3, 99}

\* The calls with a numeric argument, the reset, and the switch that lets
\* the tick adapt the parameters to the genre.
ParameterCall ==
    /\ control_calls < MaxSetterCalls
    /\ \/ \E v \in SliderValues :
              \/ SetSmoothness(v)
              \/ SetRainbowLevel(v)
              \/ SetBrightness(v)
              \/ SetStrobeLevel(v)
              \/ SetBeatSensitivity(v)
              \/ SetEchoLength(v)
              \/ SetChaosLevel(v)
              \/ SetBpmSync(v)
              \/ SimpleSetDimming(v)
       \/ \E n \in CountValues :
              \/ SetLightCount(n)
              \/ SimpleSetLightCount(n)
              \/ SimpleSetBpmDivision(n)
       \/ SetGenreAuto(TRUE)
       \/ Reset

----------------------------------------------------------------------------
\* A call of _select_new_colors, the one call a tick makes through
\* _update_colors, with what the list of the theme and the try block can
\* do to it.
SelectNewColorsCall(palette, rnd, raised_at) ==
    /\ controller = "advanced"
    /\ ticks < MaxTicks
    /\ adv' = SelectNewColorsOutcome(adv, palette, rnd, raised_at)
    /\ ticks' = ticks + 1
    /\ last_op' = "select_new_colors"
    /\ last_call' = [name |-> "_select_new_colors",
                     arg |-> [empty |-> Len(palette) = 0,
                              raised_at |-> raised_at]]
    /\ UNCHANGED <<controller, simple, data, since_update, control_calls,
                   pending, beat_queue, engine_env>>
    /\ UNCHANGED thread_vars

\* The lists a theme can hold, the draws and the places of a raise explored
SelectPalettes == {ThemePalette(adv.color_theme), <<>>}
SelectDraws == {0, 3, 5}
RaisedAt == {NotRaised, 0, 2}

\* The setter calls that decide the tier and the number of lights
SelectSetup ==
    /\ control_calls < MaxSetterCalls
    /\ \/ \E value \in SliderValues \cup {300} : SetRainbowLevel(value)
       \/ \E count \in CountValues : SetLightCount(count)

\* patterns = ["sync", "wave", "center", "alternate", "mirror"], the list
\* _apply_chaos draws the new pattern from
chaos_patterns == {"sync", "wave", "center", "alternate", "mirror"}

\* The names the setters are called with: names of the valid sets and names
\* outside them
PatternNames == {"mirror", "swell", "ripple", ""}
ThemeNames == {"warm", "default", "Warm", "rainbow"}
EffectNames == {"breathe", "none", "laser"}
ProgramNames == {"Bounce (Discrete)", "bounce", "Advanced"}

\* The setters of a name, and the two setters that let a tick assign one
NameCall ==
    /\ control_calls < MaxSetterCalls
    /\ \/ \E n \in PatternNames : SetPattern(n)
       \/ \E n \in ThemeNames : SetColorTheme(n)
       \/ \E n \in EffectNames : SetEffectMode(n)
       \/ \E n \in ProgramNames : SimpleSetProgram(n)
       \/ SetChaosLevel(5000)
       \/ SetGenreAuto(TRUE)
       \/ Reset

\* The ticks of the names: a tick without chaos, and ticks in which
\* _apply_chaos draws a pattern of its list
NameInputs ==
    {inp \in TickInputs : ~inp.chaos_switch}
        \cup {[inp EXCEPT !.chaos_pattern = n] :
                  inp \in {t \in TickInputs : t.chaos_switch},
                  n \in {"alternate", "mirror"}}

\* Music playing, classified as edm or as rock
NameSnapshots ==
    LET playing == {f \in FeatureSnapshots : f.audio_active /\ ~f.is_drop}
    IN  playing \cup {[f EXCEPT !.genre = "rock"] : f \in playing}

----------------------------------------------------------------------------
\* The threads step by step: the thread of the controller, the thread of the
\* control surface and the audio thread, with control_lock, stop_event and
\* the frames handed to the OLA client. _setup_ola is taken to succeed.

\* while not self.stop_event.is_set(): the test both loops make at the
\* head of each iteration
LoopContinues(flag) == ~flag

\* start(): the thread runs _dmx_loop, which schedules the first
\* _send_dmx_frame (Advanced) or enters the while loop (Simple).
ThreadStart(c) ==
    /\ controller = "none"
    /\ controller' = c
    /\ engine_pc' = "scheduled"
    /\ last_op' = "start"
    /\ UNCHANGED <<beat_queue, adv, simple, data, since_update, ticks,
                   control_calls, pending, last_call, stop_event, control_lock,
                   tick, ui_pc, extractor_pc, sent, engine_env>>

\* stop() has called wrapper.Stop(): Run() returns once the callback under
\* way has returned.
WrapperStopped == controller = "advanced" /\ ui_pc \in {"joining", "stopped"}

\* _send_dmx_frame up to the call of _update_colors: the test of
\* stop_event, get_state, the blackout test, the genre adaptation, the drop
\* and the drain of the beat queue.
SendDmxFrameBegins(inp) ==
    /\ controller = "advanced"
    /\ engine_pc = "scheduled"
    /\ ~WrapperStopped
    /\ IF stop_event
       THEN /\ engine_pc' = "exited"
            /\ UNCHANGED <<adv, beat_queue, pending, data, tick>>
       ELSE /\ LET f == GetState
               IN  IF Blackout(adv, f)
                   THEN /\ data' = ZeroFrame
                        /\ tick' = [f |-> f, beat_occurred |-> FALSE, inp |-> inp]
                        /\ engine_pc' = "send"
                        /\ UNCHANGED <<adv, beat_queue, pending>>
                   ELSE /\ adv' = ForceDrop(ApplyGenreAdaptation(adv, f.genre),
                                            f.is_drop)
                        /\ beat_queue' = <<>>
                        /\ pending' = FALSE
                        /\ tick' = [f |-> f, beat_occurred |-> beat_queue # <<>>,
                                    inp |-> inp]
                        /\ engine_pc' = "update_colors"
                        /\ UNCHANGED data
    /\ last_op' = "tick_begins"
    /\ UNCHANGED <<controller, simple, since_update, control_calls, last_call,
                   stop_event, control_lock, ui_pc, extractor_pc, sent,
                   engine_env>>

\* The same, with the frames counted
TickBegins(inp) ==
    /\ stop_event \/ ticks < MaxTicks
    /\ ticks' = IF stop_event THEN ticks ELSE ticks + 1
    /\ SendDmxFrameBegins(inp)

\* _update_colors found control_lock free: the colours are updated under
\* the lock.
TickUpdatesColors ==
    /\ engine_pc = "update_colors"
    /\ control_lock = "free"
    /\ control_lock' = "engine"
    /\ engine_pc' = "locked"
    /\ last_op' = "tick_updates_colors"
    /\ adv' = UpdateColors(adv, tick.beat_occurred, tick.f.intensity, tick.inp)
    /\ UNCHANGED <<beat_queue, controller, simple, data, since_update, ticks,
                   control_calls, pending, last_call, stop_event, tick, ui_pc,
                   extractor_pc, sent, engine_env>>

\* _update_colors did not get control_lock within 10 ms: the colours stay
\* as they are in this tick.
TickSkipsUpdate ==
    /\ engine_pc = "update_colors"
    /\ control_lock = "ui"
    /\ engine_pc' = "render"
    /\ last_op' = "tick_skips_update"
    /\ UNCHANGED <<beat_queue, controller, adv, simple, data, since_update,
                   ticks, control_calls, pending, last_call, stop_event,
                   control_lock, tick, ui_pc, extractor_pc, sent, engine_env>>

\* the finally clause of _update_colors
TickReleases ==
    /\ engine_pc = "locked"
    /\ control_lock' = "free"
    /\ engine_pc' = "render"
    /\ last_op' = "tick_releases"
    /\ UNCHANGED <<beat_queue, controller, adv, simple, data, since_update,
                   ticks, control_calls, pending, last_call, stop_event, tick,
                   ui_pc, extractor_pc, sent, engine_env>>

\* the fixture loop of _compute_dmx_frame, which reads the fields as they
\* are now
TickRenders ==
    /\ engine_pc = "render"
    /\ engine_pc' = "send"
    /\ last_op' = "tick_renders"
    /\ data' = RenderFixtures(adv, tick.f, tick.beat_occurred, tick.inp)
    /\ adv' = AfterChaos(adv, tick.beat_occurred, tick.inp)
    /\ UNCHANGED <<beat_queue, controller, simple, since_update, ticks,
                   control_calls, pending, last_call, stop_event, control_lock,
                   tick, ui_pc, extractor_pc, sent, engine_env>>

\* client.SendDmx(frame) and the AddEvent that schedules the next tick
TickSends ==
    /\ engine_pc = "send"
    /\ sent' = data
    /\ tick' = NoTick
    /\ engine_pc' = IF WrapperStopped THEN "exited" ELSE "scheduled"
    /\ last_op' = "tick_sends"
    /\ UNCHANGED <<beat_queue, controller, adv, simple, data, since_update,
                   ticks, control_calls, pending, last_call, stop_event,
                   control_lock, ui_pc, extractor_pc, engine_env>>

\* An exception leaves _send_dmx_frame, raised by the fixture loop or by
\* SendDmx: the AddEvent at the end of the method is not reached.
TickRaises ==
    /\ engine_pc \in {"render", "send"}
    /\ engine_pc' = "unscheduled"
    /\ tick' = NoTick
    /\ last_op' = "tick_raises"
    /\ UNCHANGED <<beat_queue, controller, adv, simple, data, since_update,
                   ticks, control_calls, pending, last_call, stop_event,
                   control_lock, ui_pc, extractor_pc, sent, engine_env>>

\* (mutant) _update_colors without the try/finally: the exception leaves
\* the method with control_lock held
TickUpdateRaises_NoFinally ==
    /\ engine_pc = "locked"
    /\ engine_pc' = "unscheduled"
    /\ tick' = NoTick
    /\ last_op' = "tick_update_raises"
    /\ UNCHANGED <<beat_queue, controller, adv, simple, data, since_update,
                   ticks, control_calls, pending, last_call, stop_event,
                   control_lock, ui_pc, extractor_pc, sent, engine_env>>

\* An exception is raised in _update_colors while control_lock is held: the
\* finally clause releases the lock and the exception leaves
\* _send_dmx_frame before the AddEvent.
TickUpdateRaises ==
    /\ engine_pc = "locked"
    /\ control_lock' = "free"
    /\ engine_pc' = "unscheduled"
    /\ tick' = NoTick
    /\ last_op' = "tick_update_raises"
    /\ UNCHANGED <<beat_queue, controller, adv, simple, data, since_update,
                   ticks, control_calls, pending, last_call, stop_event,
                   ui_pc, extractor_pc, sent, engine_env>>

\* wrapper.Run() returns and with it _dmx_loop: after wrapper.Stop(), or
\* when the exception of a callback ended it.
RunReturns ==
    /\ controller = "advanced"
    /\ \/ engine_pc = "unscheduled"
       \/ engine_pc = "scheduled" /\ WrapperStopped
    /\ engine_pc' = "exited"
    /\ last_op' = "run_returns"
    /\ UNCHANGED <<beat_queue, controller, adv, simple, data, since_update,
                   ticks, control_calls, pending, last_call, stop_event,
                   control_lock, tick, ui_pc, extractor_pc, sent, engine_env>>

\* BaseDmxController._send_dmx is SendDmx followed by self.wrapper.Run(),
\* the event loop of the OLA client, which runs the completion callback and
\* returns when wrapper.Stop() is called. Neither BaseDmxController nor
\* SimpleDmxController calls wrapper.Stop(): the thread stays in Run(),
\* engine_pc "in_run" before and "run_idle" after the callback.

\* The while test of BaseDmxController._dmx_loop: when stop_event is set
\* the loop is left and the blackout frame is sent.
LoopTest ==
    /\ controller = "simple"
    /\ engine_pc = "scheduled"
    /\ IF ~LoopContinues(stop_event)
       THEN /\ sent' = ZeroFrame
            /\ engine_pc' = "in_run"
       ELSE /\ ticks < MaxTicks
            /\ engine_pc' = "iteration"
            /\ UNCHANGED sent
    /\ last_op' = "loop_test"
    /\ UNCHANGED <<beat_queue, controller, adv, simple, data, since_update,
                   ticks, control_calls, pending, last_call, stop_event,
                   control_lock, tick, ui_pc, extractor_pc, engine_env>>

\* The frame of this iteration is due
FrameDue(dt) == Min(update_interval, since_update + dt) >= update_interval

\* The try block of the loop: _process_beats and, when it is due, the
\* frame and its send, which enters Run(). (since_update stands at 0 then
\* although last_update is assigned after the send: no step reads it.)
LoopIteration(dt, rnd) ==
    /\ engine_pc = "iteration"
    /\ LoopBody(dt, rnd)
    /\ sent' = IF FrameDue(dt) THEN data' ELSE sent
    /\ engine_pc' = IF FrameDue(dt) THEN "in_run" ELSE "scheduled"
    /\ UNCHANGED <<stop_event, control_lock, tick, ui_pc, extractor_pc>>

\* _dmx_sent, the completion callback, called from Run(): it prints the
\* status when the send did not succeed.
DmxSent(succeeded) ==
    /\ controller = "simple"
    /\ engine_pc = "in_run"
    /\ engine_pc' = "run_idle"
    /\ last_op' = IF succeeded THEN "dmx_sent" ELSE "dmx_send_failed"
    /\ UNCHANGED <<beat_queue, controller, adv, simple, data, since_update,
                   ticks, control_calls, pending, last_call, stop_event,
                   control_lock, tick, ui_pc, extractor_pc, sent, engine_env>>

\* The except clause of the loop: _compute_dmx_frame raised after
\* _process_beats had run; last_update keeps its value.
LoopIterationRaises(dt) ==
    /\ controller = "simple"
    /\ engine_pc = "iteration"
    /\ FrameDue(dt)
    /\ simple' = ProcessBeats(simple, beat_queue)
    /\ beat_queue' = <<>>
    /\ since_update' = update_interval
    /\ engine_pc' = "scheduled"
    /\ last_op' = "loop_raises"
    /\ UNCHANGED <<controller, adv, data, ticks, control_calls, pending,
                   last_call, stop_event, control_lock, tick, ui_pc,
                   extractor_pc, sent, engine_env>>

\* The while test of _audio_loop
ExtractorLoopTest ==
    /\ extractor_pc = "head"
    /\ extractor_pc' = IF LoopContinues(stop_event) THEN "block" ELSE "exited"
    /\ last_op' = "extractor_test"
    /\ UNCHANGED <<beat_queue, controller, adv, simple, data, since_update,
                   ticks, control_calls, pending, last_call, stop_event,
                   control_lock, engine_pc, tick, ui_pc, sent, engine_env>>

\* The body of the while loop of _audio_loop, to its end
ExtractorBlock(f) ==
    /\ extractor_pc = "block"
    /\ Publish(f)
    /\ extractor_pc' = "head"
    /\ last_op' = "extractor"
    /\ UNCHANGED <<extractor_private, beat_queue, engine_vars>>
    /\ UNCHANGED <<stop_event, control_lock, engine_pc, tick, ui_pc, sent>>
    /\ UNCHANGED <<beat_env, intensity_calls, last_rms, presence_env,
                   trend_env, genre_env, read_errors, divider_env, dj, dj_env, fade_triggers>>

\* The calls of the control surface explored against the running tick
ThreadCalls ==
    { [name |-> "set_brightness", arg |-> -5000],
      [name |-> "set_light_count", arg |-> 2],
      [name |-> "reset", arg |-> 0] }

\* What a setter assigns while it holds control_lock
LockedEffect(p, call) ==
    CASE call.name = "set_brightness" -> WithBrightness(p, call.arg)
      [] call.name = "set_light_count" -> WithLightCount(p, call.arg)
      [] call.name = "reset" -> DoInitializeColors(ResetParameters(p))

\* (mutant) the assignment made although the lock was not acquired
DroppedEffect_Applied(p, call) == LockedEffect(p, call)

\* What a setter assigns when acquire(timeout) returned False: nothing
DroppedEffect(p, call) == p

\* needs_reinit of set_light_count
NeedsReinit(p, call) ==
    call.name = "set_light_count" /\ p.active_lights # ClampLightCount(call.arg)

\* A setter acquires control_lock and makes its assignments.
SetterAcquires(call) ==
    /\ controller = "advanced"
    /\ ui_pc = "idle"
    /\ control_lock = "free"
    /\ control_lock' = "ui"
    /\ adv' = LockedEffect(adv, call)
    /\ ui_pc' = IF NeedsReinit(adv, call) THEN "holding_reinit" ELSE "holding"
    /\ last_call' = call
    /\ last_op' = "control_call"
    /\ UNCHANGED <<beat_queue, controller, simple, data, since_update, ticks,
                   pending, stop_event, engine_pc, tick, extractor_pc, sent,
                   engine_env>>

\* The same, with the calls counted
UiCallAcquires(call) ==
    /\ control_calls < MaxControlCalls
    /\ control_calls' = control_calls + 1
    /\ SetterAcquires(call)

\* A setter waits for control_lock, which the tick holds, until the timeout
\* (10 ms, 100 ms for reset) has passed, and returns.
SetterTimesOut(call) ==
    /\ controller = "advanced"
    /\ ui_pc = "idle"
    /\ control_lock = "engine"
    /\ adv' = DroppedEffect(adv, call)
    /\ last_call' = call
    /\ last_op' = "call_dropped"
    /\ UNCHANGED <<beat_queue, controller, simple, data, since_update, ticks,
                   pending, stop_event, control_lock, engine_pc, tick, ui_pc,
                   extractor_pc, sent, engine_env>>

\* The same, with the calls counted
UiCallTimesOut(call) ==
    /\ control_calls < MaxControlCalls
    /\ control_calls' = control_calls + 1
    /\ SetterTimesOut(call)

\* the finally clause of a setter; set_light_count goes on to
\* _initialize_colors when the count changed
UiReleases ==
    /\ ui_pc \in {"holding", "holding_reinit"}
    /\ control_lock' = "free"
    /\ ui_pc' = IF ui_pc = "holding_reinit" THEN "reinit" ELSE "idle"
    /\ last_op' = "ui_releases"
    /\ UNCHANGED <<beat_queue, controller, adv, simple, data, since_update,
                   ticks, control_calls, pending, last_call, stop_event,
                   engine_pc, tick, extractor_pc, sent, engine_env>>

\* _initialize_colors acquires control_lock and initialises the colours.
UiInitializesColors ==
    /\ ui_pc = "reinit"
    /\ control_lock = "free"
    /\ control_lock' = "ui"
    /\ adv' = DoInitializeColors(adv)
    /\ ui_pc' = "holding"
    /\ last_op' = "ui_initializes_colors"
    /\ UNCHANGED <<beat_queue, controller, simple, data, since_update, ticks,
                   control_calls, pending, last_call, stop_event, engine_pc,
                   tick, extractor_pc, sent, engine_env>>

\* _initialize_colors does not get control_lock within 10 ms and returns.
UiInitializeTimesOut ==
    /\ ui_pc = "reinit"
    /\ control_lock = "engine"
    /\ ui_pc' = "idle"
    /\ last_op' = "ui_initialize_dropped"
    /\ UNCHANGED <<beat_queue, controller, adv, simple, data, since_update,
                   ticks, control_calls, pending, last_call, stop_event,
                   control_lock, engine_pc, tick, extractor_pc, sent,
                   engine_env>>

\* stop(): stop_event.set()
UiStops ==
    /\ controller # "none"
    /\ ui_pc = "idle"
    /\ ~stop_event
    /\ stop_event' = TRUE
    /\ ui_pc' = "stop_requested"
    /\ last_op' = "stop"
    /\ UNCHANGED <<beat_queue, controller, adv, simple, data, since_update,
                   ticks, control_calls, pending, last_call, control_lock,
                   engine_pc, tick, extractor_pc, sent, engine_env>>

\* stop() after the flag: DmxController.stop sends the all-zero frame and
\* calls wrapper.Stop(); BaseDmxController.stop goes on to the join.
UiStopSends ==
    /\ ui_pc = "stop_requested"
    /\ sent' = IF controller = "advanced" THEN ZeroFrame ELSE sent
    /\ ui_pc' = "joining"
    /\ last_op' = "stop_sends"
    /\ UNCHANGED <<beat_queue, controller, adv, simple, data, since_update,
                   ticks, control_calls, pending, last_call, stop_event,
                   control_lock, engine_pc, tick, extractor_pc, engine_env>>

\* thread.join(timeout=2.0) returns, the thread ended or not.
UiJoinReturns ==
    /\ ui_pc = "joining"
    /\ ui_pc' = "stopped"
    /\ last_op' = "join_returns"
    /\ UNCHANGED <<beat_queue, controller, adv, simple, data, since_update,
                   ticks, control_calls, pending, last_call, stop_event,
                   control_lock, engine_pc, tick, extractor_pc, sent,
                   engine_env>>

----------------------------------------------------------------------------
\* SimpleDmxController._program_dj_mode (lines 1270-1394): the choice of
\* the sub-program.  The frame the sub-program then renders (lines
\* 1396-1445) is not looked at.

\* __init__, lines 134-144; the averages are in thousandths
DjInit ==
    [dj_current_program |-> "Breathing",
     dj_program_beats |-> 0,
     dj_min_beats |-> 16,
     dj_energy_history |-> <<>>,
     dj_build_detected |-> FALSE,
     dj_drop_countdown |-> 0,
     dj_intensity_avg |-> 300,
     dj_bass_avg |-> 300,
     dj_high_avg |-> 300]

\* alpha * value + (1 - alpha) * average with alpha = 0.1
DjSmooth(value, average) == (100 * value + 900 * average) \div 1000

\* _categorize_energy
CategorizeEnergy(d) ==
    LET energy_score == 5 * d.dj_intensity_avg + 3 * d.dj_bass_avg
                            + 2 * d.dj_high_avg
    IN  IF energy_score < 2500 THEN "chill"
        ELSE IF energy_score < 4500 THEN "groovy"
        ELSE IF energy_score < 6500 THEN "energetic"
        ELSE "peak"

\* program_choices of each branch, with what the branch appends
DjChoices(d, energy_level, bpm) ==
    IF d.dj_drop_countdown = 0 /\ d.dj_build_detected
    THEN <<"Center Burst", "Strobe", "Color Ripples", "Disco">>
    ELSE IF energy_level = "chill"
    THEN <<"Breathing", "Swell (Same Color)", "Spiral">>
             \o (IF d.dj_high_avg > 500 THEN <<"Kaleidoscope">> ELSE <<>>)
    ELSE IF energy_level = "groovy"
    THEN <<"Bounce (Same Color)", "Bounce (Different Colors)", "Ripple",
           "Ripple Bounce", "Chase", "Alternating">>
             \o (IF bpm > 100000 /\ bpm < 130000
                 THEN <<"Bounce (Same Color)", "Ripple Bounce">> ELSE <<>>)
    ELSE IF energy_level = "energetic"
    THEN <<"Disco", "Pulse", "Bounce (Discrete)", "Ripple Bounce Color",
           "Chase", "Alternating">>
             \o (IF d.dj_high_avg > 600
                 THEN <<"Psych", "Interference">> ELSE <<>>)
    ELSE <<"Strobe", "Center Burst", "Color Ripples", "Psych",
           "Kaleidoscope", "Interference">>
             \o (IF d.dj_bass_avg > 700 THEN <<"Pulse">> ELSE <<>>)

\* self.dj_min_beats of each branch
DjMinBeats(d, energy_level) ==
    IF d.dj_drop_countdown = 0 /\ d.dj_build_detected THEN 8
    ELSE IF energy_level = "chill" THEN 24
    ELSE IF energy_level = "groovy" THEN 16
    ELSE IF energy_level = "energetic" THEN 12
    ELSE 8

\* line 1316: "if self.dj_program_beats >= self.dj_min_beats"
CooldownOver(d) == d.dj_program_beats >= d.dj_min_beats

\* lines 1279-1310: the averages, the history, the beat count and the
\* detection of build-ups and drops
DjTrack(d, f, beat) ==
    LET history == LET h == Append(d.dj_energy_history, f.intensity)
                   IN  IF Len(h) > 30 THEN Tail(h) ELSE h
        d1 == [d EXCEPT
                 !.dj_intensity_avg = DjSmooth(f.intensity, d.dj_intensity_avg),
                 !.dj_bass_avg = DjSmooth(f.bass, d.dj_bass_avg),
                 !.dj_high_avg = DjSmooth(f.high, d.dj_high_avg),
                 !.dj_energy_history = history,
                 !.dj_program_beats =
                     IF beat THEN d.dj_program_beats + 1
                     ELSE d.dj_program_beats]
        recent == SumSeq(SubSeq(history, Len(history) - 9, Len(history)))
        older == SumSeq(SubSeq(history, 1, 10))
        d2 == IF Len(history) >= 30 /\ 10 * recent > 13 * older
                    /\ d1.dj_intensity_avg > 600
              THEN [d1 EXCEPT !.dj_build_detected = TRUE,
                              !.dj_drop_countdown = 8]
              ELSE d1
    IN  IF Len(history) >= 30 /\ f.intensity > 900 /\ d2.dj_bass_avg > 700
        THEN [d2 EXCEPT !.dj_drop_countdown = 0, !.dj_build_detected = FALSE]
        ELSE d2

\* lines 1312-1384: the decision; rnd is the draw of random.choice.  The
\* result is the controller after the tick.
DjDecide(d, f, rnd) ==
    LET energy_level == CategorizeEnergy(d)
        drop == d.dj_drop_countdown = 0 /\ d.dj_build_detected
        choices == DjChoices(d, energy_level, f.bpm)
        allowed == IF drop THEN choices
                   ELSE SelectSeq(choices,
                                  LAMBDA p : p # d.dj_current_program)
        timed == CooldownOver(d)
        d1 == IF timed
              THEN [d EXCEPT !.dj_min_beats = DjMinBeats(d, energy_level),
                             !.dj_build_detected =
                                 IF drop THEN FALSE ELSE d.dj_build_detected]
              ELSE d
        chosen == IF timed THEN allowed[(rnd % Len(allowed)) + 1]
                  ELSE d.dj_current_program
        counting == d1.dj_drop_countdown > 0
        tension == /\ counting
                   /\ d1.dj_drop_countdown - 1 < 4
                   /\ d1.dj_current_program
                         \notin {"Swell (Different Colors)", "Pulse"}
        d2 == [d1 EXCEPT
                 !.dj_drop_countdown = IF counting THEN @ - 1 ELSE @,
                 !.dj_min_beats = IF tension THEN 4 ELSE @]
        new_program == IF tension THEN "Swell (Different Colors)" ELSE chosen
        should_switch == timed \/ tension
    IN  IF should_switch /\ new_program # d.dj_current_program
        THEN [d2 EXCEPT !.dj_current_program = new_program,
                        !.dj_program_beats = 0]
        ELSE d2

\* The music _program_dj_mode is explored with: a quiet passage and a loud
\* one.
DjSnapshots ==
    <<[bpm |-> 120000, intensity |-> 300, audio_active |-> TRUE,
       bass |-> 300, mid |-> 300, high |-> 200, is_building |-> FALSE,
       is_drop |-> FALSE, genre |-> "auto"],
      [bpm |-> 128000, intensity |-> 800, audio_active |-> TRUE,
       bass |-> 800, mid |-> 400, high |-> 300, is_building |-> FALSE,
       is_drop |-> FALSE, genre |-> "edm"]>>

\* A tick of the program 'DJ Mode'; beat says whether _process_beats found
\* a beat event.  The music changes character at most MaxDjChanges times
\* in MaxDjTicks ticks.
DjModeTick(k, beat, rnd) ==
    /\ controller = "simple"
    /\ simple.program = "DJ Mode"
    /\ dj_env.ticks < MaxDjTicks
    /\ (dj_env.last # 0 /\ k # dj_env.last) => dj_env.changes < MaxDjChanges
    /\ dj' = DjDecide(DjTrack(dj, DjSnapshots[k], beat), DjSnapshots[k], rnd)
    /\ simple' = IF dj'.dj_current_program # dj.dj_current_program
                 THEN [simple EXCEPT !.beat_occurred = beat,
                                     !.bounce_position = 0,
                                     !.bounce_direction = 1]
                 ELSE [simple EXCEPT !.beat_occurred = beat]
    /\ dj_env' =
          [ticks |-> dj_env.ticks + 1,
           changes |-> IF dj_env.last # 0 /\ k # dj_env.last
                       THEN dj_env.changes + 1 ELSE dj_env.changes,
           last |-> k,
           beat |-> beat]
    /\ last_op' = "dj_mode"
    /\ UNCHANGED <<audio_vars, beat_env, intensity_calls, last_rms,
                   presence_env, trend_env, genre_env, read_errors,
                   divider_env, fade_triggers>>
    /\ UNCHANGED <<controller, adv, data, since_update, ticks, control_calls,
                   last_call, pending, thread_vars>>

\* _program_dj_mode in the thread of the controller, as far as
\* 'self.program = self.dj_current_program': the frame of this iteration is
\* due, _process_beats has run, the sub-program is decided, the selected
\* program is saved in temp_program and overwritten. The thread holds no
\* lock.
DjModeSaves(k, beat, rnd) ==
    /\ controller = "simple"
    /\ engine_pc = "iteration"
    /\ simple.program = "DJ Mode"
    /\ dj_env.ticks < MaxDjTicks
    /\ dj' = DjDecide(DjTrack(dj, DjSnapshots[k], beat), DjSnapshots[k], rnd)
    /\ simple' = [(IF dj'.dj_current_program # dj.dj_current_program
                   THEN [simple EXCEPT !.beat_occurred = beat,
                                       !.bounce_position = 0,
                                       !.bounce_direction = 1]
                   ELSE [simple EXCEPT !.beat_occurred = beat])
                     EXCEPT !.program = dj'.dj_current_program]
    /\ tick' = [temp_program |-> simple.program]
    /\ engine_pc' = "dj_subprogram"
    /\ dj_env' = [dj_env EXCEPT !.ticks = @ + 1, !.last = k, !.beat = beat]
    /\ beat_queue' = <<>>
    /\ pending' = FALSE
    /\ last_op' = "dj_mode_saves"
    /\ UNCHANGED <<now, beat_state, intensity_state, presence_state,
                   trend_state, freq_state, genre_state, loop_state,
                   reader_state>>
    /\ UNCHANGED <<beat_env, intensity_calls, last_rms, presence_env,
                   trend_env, genre_env, read_errors, divider_env,
                   fade_triggers>>
    /\ UNCHANGED <<controller, adv, data, since_update, ticks, control_calls,
                   last_call, stop_event, control_lock, ui_pc, extractor_pc,
                   sent>>

\* _program_dj_mode from the sub-program to its end,
\* 'self.program = temp_program', and the send of the frame, which enters
\* Run().
DjModeRestores ==
    /\ controller = "simple"
    /\ engine_pc = "dj_subprogram"
    /\ simple' = [simple EXCEPT !.program = tick.temp_program]
    /\ tick' = NoTick
    /\ ticks' = ticks + 1
    /\ since_update' = 0
    /\ sent' = data
    /\ engine_pc' = "in_run"
    /\ last_op' = "dj_mode_restores"
    /\ UNCHANGED <<beat_queue, controller, adv, data, control_calls, pending,
                   last_call, stop_event, control_lock, ui_pc, extractor_pc,
                   engine_env>>

----------------------------------------------------------------------------
Init ==
    /\ now = 0
    /\ last_beat_time = 0
    /\ beat_timestamps = <<>>
    /\ current_bpm = 0
    /\ beat_queue = <<>>
    /\ last_op = "init"
    /\ beat_calls = 0
    /\ odd_gaps = 0
    /\ current_intensity = 0
    /\ intensity_history = <<>>
    /\ intensity_calls = 0
    /\ silent_frames = 0
    /\ audio_active = FALSE
    /\ last_rms = 0
    /\ quiet_run = 0
    /\ presence_calls = 0
    /\ intensity_trend = <<>>
    /\ is_building = FALSE
    /\ is_drop = FALSE
    /\ build_age = AgeCap
    /\ drop_age = 0
    /\ last_level = 0
    /\ level_changes = 0
    /\ genre_env = [calls |-> 0, changes |-> 0, last |-> 0]
    /\ read_errors = 0
    /\ divider_env = [ticks |-> 0, beats |-> 0]
    /\ dj = DjInit
    /\ dj_env = [ticks |-> 0, changes |-> 0, last |-> 0, beat |-> FALSE]
    /\ fade_triggers = 0
    /\ bass_intensity = 0
    /\ mid_intensity = 0
    /\ high_intensity = 0
    /\ genre_hints = [g \in Genres |-> 0]
    /\ detected_genre = "auto"
    /\ state_lock = "free"
    /\ audio_pc = "read"
    /\ block = NoBlock
    /\ blocks_done = 0
    /\ committed = {Fields}
    /\ reader_pc = "idle"
    /\ snap = <<>>
    /\ returned = <<>>
    /\ reads_done = 0
    /\ controller = "none"
    /\ adv = AdvInit
    /\ simple = SimpleInit
    /\ data = ZeroFrame
    /\ since_update = 0
    /\ ticks = 0
    /\ control_calls = 0
    /\ pending = FALSE
    /\ last_call = [name |-> "none", arg |-> 0]
    /\ stop_event = FALSE
    /\ control_lock = "free"
    /\ engine_pc = "not_started"
    /\ tick = NoTick
    /\ ui_pc = "idle"
    /\ extractor_pc = "head"
    /\ sent = <<>>

NextBeat == \E gap \in RegularGap \cup OddGaps : BeatCall(gap)

SpecBeat == Init /\ [][NextBeat]_vars

NextIntensity == \E rms \in RmsLevels : IntensityCall(rms)

SpecIntensity == Init /\ [][NextIntensity]_vars

NextPresence == \E rms \in PresenceRms : PresenceCall(rms)

SpecPresence == Init /\ [][NextPresence]_vars

NextTrend == \E intensity \in TrendLevels : TrendCall(intensity)

SpecTrend == Init /\ [][NextTrend]_vars

\* The detector fed with a quiet passage, a slightly louder one and full
\* scale
BuildLevels == {100, 140, 1000}

NextBuild == \E intensity \in BuildLevels : TrendCall(intensity)

SpecBuild == Init /\ [][NextBuild]_vars

\* The setters the dimmer channel depends on: the master brightness at
\* both ends of its range, the ambient switch, the spectrum mode and the
\* pattern with a brightness of its own.
DimmerCall ==
    /\ control_calls < MaxSetterCalls
    /\ \/ \E v \in {0, 5000} : SetBrightness(v)
       \/ SetAmbientMode(TRUE)
       \/ SetSpectrumMode(TRUE)
       \/ SetPattern("swell")

\* A loud passage and a pause in the music: the smoothed intensity is 0
\* after five silent blocks while audio_active still holds.
DimmerSnapshots ==
    { [bpm |-> 128000, intensity |-> 800, audio_active |-> TRUE,
       bass |-> 700, mid |-> 300, high |-> 200, is_building |-> FALSE,
       is_drop |-> FALSE, genre |-> "edm"],
      [bpm |-> 128000, intensity |-> 0, audio_active |-> TRUE,
       bass |-> 0, mid |-> 0, high |-> 0, is_building |-> FALSE,
       is_drop |-> FALSE, genre |-> "edm"] }

NextDimmer ==
    \/ StartController("advanced")
    \/ \E f \in DimmerSnapshots : ExtractorPublishes(f)
    \/ ExtractorPutsBeat
    \/ \E inp \in TickInputs : AdvancedTick(inp)
    \/ DimmerCall

SpecDimmer == Init /\ [][NextDimmer]_vars

\* Rainbow levels on both sides of the bound of the first tier and at the
\* upper end of the second (0.19, 0.2, 0.21, 0.49), light counts and themes
RainbowLevels == {190, 200, 210, 490}

RainbowSetup ==
    /\ control_calls < MaxSetterCalls
    /\ \/ \E value \in RainbowLevels : SetRainbowLevel(value)
       \/ \E count \in {1, 3, MAX_LIGHTS} : SetLightCount(count)
       \/ \E theme \in DOMAIN COLOR_THEMES : SetColorTheme(theme)

NextRainbow ==
    \/ StartController("advanced")
    \/ RainbowSetup
    \/ \E rnd \in SelectDraws :
           SelectNewColorsCall(ThemePalette(adv.color_theme), rnd, NotRaised)

SpecRainbow == Init /\ [][NextRainbow]_vars

\* The control surface picks a theme and then moves the rainbow slider
\* into the first tier (0.0 or 0.19).
CycleSetup ==
    \/ /\ control_calls = 0
       /\ \E theme \in DOMAIN COLOR_THEMES : SetColorTheme(theme)
    \/ /\ control_calls = 1
       /\ \E value \in {0, 190} : SetRainbowLevel(value)

CycleReady == controller = "advanced" /\ control_calls = 2

\* A colour-change trigger of the first tier: _update_colors calls
\* _select_new_colors, as often as the engine keeps running.
CycleTrigger ==
    /\ CycleReady
    /\ adv' = SelectNewColors(adv, 0)
    /\ last_op' = "select_new_colors"
    /\ last_call' = [name |-> "_select_new_colors",
                     arg |-> [empty |-> FALSE, raised_at |-> NotRaised]]
    /\ UNCHANGED <<controller, simple, data, since_update, ticks,
                   control_calls, pending, beat_queue, engine_env>>
    /\ UNCHANGED thread_vars

NextCycle ==
    \/ StartController("advanced")
    \/ CycleSetup
    \/ CycleTrigger

\* The engine's loop runs as long as the program does, so the triggers
\* keep coming.
SpecCycle == Init /\ [][NextCycle]_vars /\ WF_vars(CycleTrigger)

NextDj ==
    \/ StartController("simple")
    \/ /\ control_calls < MaxSetterCalls
       /\ SimpleSetProgram("DJ Mode")
    \/ \E k \in 1..Len(DjSnapshots), beat \in BOOLEAN, rnd \in {0, 1} :
           DjModeTick(k, beat, rnd)

SpecDj == Init /\ [][NextDj]_vars

\* A tick of a program that calls _should_trigger_effect once; beat says
\* whether _process_beats found a beat event.
DividerTick(beat) ==
    /\ controller = "simple"
    /\ divider_env.ticks < MaxDividerTicks
    /\ LET r == ShouldTriggerEffect([simple EXCEPT !.beat_occurred = beat])
       IN  /\ simple' = r.after
           /\ last_op' = IF r.fire THEN "trigger" ELSE "no_trigger"
           /\ divider_env' =
                 [ticks |-> divider_env.ticks + 1,
                  beats |-> IF r.fire THEN 0
                            ELSE IF beat THEN divider_env.beats + 1
                            ELSE divider_env.beats]
    /\ UNCHANGED <<audio_vars, beat_env, intensity_calls, last_rms,
                   presence_env, trend_env, genre_env, read_errors, dj,
                   dj_env, fade_triggers>>
    /\ UNCHANGED <<controller, adv, data, since_update, ticks, control_calls,
                   last_call, pending, thread_vars>>

\* set_bpm_division before the ticks begin: the division is held constant
\* from then on.
DividerSetup ==
    /\ divider_env.ticks = 0
    /\ control_calls < MaxSetterCalls
    /\ \E division \in {0, 2, 3, 99} : SimpleSetBpmDivision(division)

NextDivider ==
    \/ StartController("simple")
    \/ DividerSetup
    \/ \E beat \in BOOLEAN : DividerTick(beat)

SpecDivider == Init /\ [][NextDivider]_vars

NextAudioLoop ==
    \/ \E b \in Blocks : AudioRead(b)
    \/ \E kind \in ReadExceptions : AudioReadRaises(kind)
    \/ AudioHandleBeat
    \/ AudioUpdateIntensity
    \/ AudioAnalyzeFrequencies
    \/ AudioDetectBuildDrop
    \/ AudioDetectGenre
    \/ AudioUpdatePresence
    \/ AudioUpdateSharedState
    \/ AudioStop
    \/ AudioLoopEnds

SpecAudioLoop == Init /\ [][NextAudioLoop]_vars

NextGenre == \E k \in 1..Len(GenreInputs) : GenreCall(k)

SpecGenre == Init /\ [][NextGenre]_vars

NextSnapshot ==
    \/ \E b \in Blocks : AudioRead(b)
    \/ AudioHandleBeat
    \/ AudioUpdateIntensity
    \/ AudioAnalyzeFrequencies
    \/ AudioDetectBuildDrop
    \/ AudioDetectGenre
    \/ AudioUpdatePresence
    \/ AudioUpdateSharedState
    \/ GetStateAcquire
    \/ GetStateReadField
    \/ GetStateReturn

SpecSnapshot == Init /\ [][NextSnapshot]_vars

NextEngine ==
    \/ \E c \in {"advanced", "simple"} : StartController(c)
    \/ \E f \in FeatureSnapshots : ExtractorPublishes(f)
    \/ ExtractorPutsBeat
    \/ \E inp \in TickInputs : AdvancedTick(inp)
    \/ \E dt \in IterationTimes, rnd \in SimpleDraws :
           SimpleLoopIteration(dt, rnd)
    \/ ControlCall

SpecEngine == Init /\ [][NextEngine]_vars

\* The engines under numeric setter calls, resets and ticks
NextParameters ==
    \/ \E c \in {"advanced", "simple"} : StartController(c)
    \/ \E f \in FeatureSnapshots : ExtractorPublishes(f)
    \/ \E inp \in TickInputs : AdvancedTick(inp)
    \/ \E dt \in IterationTimes, rnd \in SimpleDraws :
           SimpleLoopIteration(dt, rnd)
    \/ ParameterCall

SpecParameters == Init /\ [][NextParameters]_vars

\* The setters that decide which lights a frame writes and how
FrameCall ==
    /\ control_calls < MaxSetterCalls
    /\ \/ \E n \in valid_patterns : SetPattern(n)
       \/ \E n \in BouncePrograms : SimpleSetProgram(n)
       \/ \E count \in 1..MAX_LIGHTS : SetLightCount(count)
       \/ \E count \in 1..MAX_LIGHTS : SimpleSetLightCount(count)

\* Music playing; before the first block is published there is silence
FrameSnapshots == {f \in FeatureSnapshots : f.audio_active /\ ~f.is_drop}

\* Both controllers with every pattern, program and number of lights
NextFrames ==
    \/ \E c \in {"advanced", "simple"} : StartController(c)
    \/ \E f \in FrameSnapshots : ExtractorPublishes(f)
    \/ ExtractorPutsBeat
    \/ \E inp \in TickInputs : AdvancedTick(inp)
    \/ \E dt \in IterationTimes, rnd \in SimpleDraws :
           SimpleLoopIteration(dt, rnd)
    \/ FrameCall

SpecFrames == Init /\ [][NextFrames]_vars

\* The switches of the genre adaptation and of the ambient mode
AmbientCall ==
    /\ control_calls < MaxAmbientCalls
    /\ \/ \E b \in BOOLEAN : SetGenreAuto(b)
       \/ SetAmbientMode(FALSE)
       \/ Reset

\* Silence, which _detect_genre classifies as ambient (no tempo, no bass),
\* a quiet ambient track, and the loud EDM passage
AmbientSnapshots ==
    { [bpm |-> 0, intensity |-> 5, audio_active |-> FALSE,
       bass |-> 2, mid |-> 1, high |-> 0, is_building |-> FALSE,
       is_drop |-> FALSE, genre |-> "ambient"],
      [bpm |-> 70000, intensity |-> 200, audio_active |-> TRUE,
       bass |-> 100, mid |-> 150, high |-> 50, is_building |-> FALSE,
       is_drop |-> FALSE, genre |-> "ambient"] }
        \cup {f \in FeatureSnapshots : f.audio_active /\ ~f.is_drop}

\* The Advanced controller with the genre adaptation
NextAmbient ==
    \/ StartController("advanced")
    \/ \E f \in AmbientSnapshots : ExtractorPublishes(f)
    \/ \E inp \in TickInputs : AdvancedTick(inp)
    \/ AmbientCall

SpecAmbient == Init /\ [][NextAmbient]_vars

\* The control surface sets the speed of the fade and then the tier of the
\* colour selection.
FadeSetup ==
    \/ /\ control_calls = 0
       /\ \E value \in {0, 200} : SetSmoothness(value)
    \/ /\ control_calls = 1
       /\ \E value \in {0, 1000} : SetRainbowLevel(value)

FadeReady == controller = "advanced" /\ control_calls = 2

\* Whether the _update_colors call of a tick selects new colours; the
\* music is loud (intensity 0.8)
Triggered(p, beat_occurred, inp) ==
    \/ p.last_color_change = 0
    \/ inp.time_to_change
    \/ ChangeOnBeat(p, beat_occurred, 800)

\* The _update_colors call of a tick, as often as the engine keeps running;
\* the calls that select new colours are counted.
FadeTick(inp, beat_occurred) ==
    /\ FadeReady
    /\ Triggered(adv, beat_occurred, inp) => fade_triggers < MaxFadeTriggers
    /\ adv' = UpdateColors(adv, beat_occurred, 800, inp)
    /\ fade_triggers' = IF Triggered(adv, beat_occurred, inp)
                        THEN fade_triggers + 1 ELSE fade_triggers
    /\ last_op' = IF Triggered(adv, beat_occurred, inp)
                  THEN "colour_change" ELSE "fade"
    /\ UNCHANGED <<audio_vars, beat_env, intensity_calls, last_rms,
                   presence_env, trend_env, genre_env, read_errors,
                   divider_env, dj, dj_env>>
    /\ UNCHANGED <<controller, simple, data, since_update, ticks,
                   control_calls, last_call, pending, thread_vars>>

\* A call of _update_colors in which neither the clock nor a beat triggers
FadeOnlyTick ==
    \E inp \in {t \in TickInputs : ~t.time_to_change} :
        /\ ~Triggered(adv, FALSE, inp)
        /\ FadeTick(inp, FALSE)

NextFade ==
    \/ StartController("advanced")
    \/ FadeSetup
    \/ \E inp \in TickInputs, beat_occurred \in BOOLEAN :
           FadeTick(inp, beat_occurred)

\* The engine's loop calls _update_colors in every tick for as long as the
\* program runs, so the ticks without a trigger keep coming.
SpecFade == Init /\ [][NextFade]_vars /\ WF_vars(FadeOnlyTick)

\* set_program from the control surface: the names of two programs and a
\* name that is none
ProgramCall ==
    /\ control_calls < MaxProgramCalls
    /\ \E n \in {"DJ Mode", "Bounce (Discrete)", "bounce"} : SimpleSetProgram(n)

\* The thread of the Simple controller with the program 'DJ Mode' and the
\* control surface
NextProgram ==
    \/ ThreadStart("simple")
    \/ \E f \in FrameSnapshots : ExtractorPublishes(f)
    \/ LoopTest
    \/ /\ simple.program # "DJ Mode"
       /\ \E rnd \in SimpleDraws : LoopIteration(update_interval, rnd)
    \/ \E k \in 1..Len(DjSnapshots), beat \in BOOLEAN, rnd \in {0, 1} :
           DjModeSaves(k, beat, rnd)
    \/ DjModeRestores
    \/ \E succeeded \in BOOLEAN : DmxSent(succeeded)
    \/ ProgramCall

SpecProgram == Init /\ [][NextProgram]_vars

\* Both controllers with the setters of a name
NextNames ==
    \/ \E c \in {"advanced", "simple"} : StartController(c)
    \/ \E f \in NameSnapshots : ExtractorPublishes(f)
    \/ ExtractorPutsBeat
    \/ \E inp \in NameInputs : AdvancedTick(inp)
    \/ \E rnd \in SimpleDraws : SimpleLoopIteration(update_interval, rnd)
    \/ NameCall

SpecNames == Init /\ [][NextNames]_vars

\* The colour selection of the Advanced controller by itself
NextSelect ==
    \/ StartController("advanced")
    \/ SelectSetup
    \/ \E palette \in SelectPalettes, rnd \in SelectDraws, raised_at \in RaisedAt :
           SelectNewColorsCall(palette, rnd, raised_at)

SpecSelect == Init /\ [][NextSelect]_vars

\* The clock and the draws of a tick that the shutdown is explored with, no
\* chaos, and the audio the threads are explored with, music playing
ShutdownInputs == {inp \in TickInputs : ~inp.chaos_switch}
ShutdownSnapshots == {f \in FeatureSnapshots : f.audio_active /\ ~f.is_drop}

\* The threads of the application with the Advanced or the Simple controller
NextThreads ==
    \/ \E c \in {"advanced", "simple"} : ThreadStart(c)
    \/ \E inp \in TickInputs : TickBegins(inp)
    \/ TickUpdatesColors
    \/ TickSkipsUpdate
    \/ TickReleases
    \/ TickRenders
    \/ TickSends
    \/ TickRaises
    \/ RunReturns
    \/ LoopTest
    \/ \E dt \in IterationTimes, rnd \in SimpleDraws : LoopIteration(dt, rnd)
    \/ \E succeeded \in BOOLEAN : DmxSent(succeeded)
    \/ \E dt \in IterationTimes : LoopIterationRaises(dt)
    \/ ExtractorLoopTest
    \/ \E f \in FrameSnapshots : ExtractorPublishes(f)
    \/ \E call \in ThreadCalls : UiCallAcquires(call) \/ UiCallTimesOut(call)
    \/ UiReleases
    \/ UiInitializesColors
    \/ UiInitializeTimesOut
    \/ UiStops
    \/ UiStopSends
    \/ UiJoinReturns

SpecThreads == Init /\ [][NextThreads]_vars

\* The steps of the thread of the controller, no setter being called
EngineStep ==
    \/ \E inp \in ShutdownInputs : TickBegins(inp)
    \/ TickUpdatesColors
    \/ TickReleases
    \/ TickRenders
    \/ TickSends
    \/ RunReturns
    \/ LoopTest
    \/ \E dt \in IterationTimes, rnd \in SimpleDraws : LoopIteration(dt, rnd)
    \/ \E succeeded \in BOOLEAN : DmxSent(succeeded)

\* The steps of the audio thread
ExtractorStep ==
    \/ ExtractorLoopTest
    \/ \E f \in FrameSnapshots : ExtractorPublishes(f)

\* The two loops and stop(), with the exceptions a tick can raise
NextShutdown ==
    \/ \E c \in {"advanced", "simple"} : ThreadStart(c)
    \/ EngineStep
    \/ ExtractorStep
    \/ TickRaises
    \/ \E dt \in IterationTimes : LoopIterationRaises(dt)
    \/ UiStops
    \/ UiStopSends
    \/ UiJoinReturns

\* The loops under a scheduler that lets each running thread go on, with an
\* audio stream that delivers its blocks
SpecShutdown ==
    /\ Init
    /\ [][NextShutdown]_vars
    /\ WF_vars(EngineStep)
    /\ WF_vars(ExtractorStep)

\* The ticks of the Advanced engine and the setters of the control surface,
\* neither counted: both go on for as long as the application runs.
LockInputs == {inp \in TickInputs : ~inp.time_to_change}
LockSnapshots == {f \in FrameSnapshots : f.genre = "edm"}
LockCalls == {call \in ThreadCalls : call.name = "set_light_count"}

\* set_smoothness(0.0) before start(): no other thread exists, the setter
\* acquires control_lock, assigns and releases. The fades then take three
\* ticks.
LockSetup ==
    /\ controller = "none"
    /\ control_calls = 0
    /\ control_lock = "free"
    /\ adv' = WithSmoothness(adv, 0)
    /\ control_calls' = 1
    /\ last_call' = [name |-> "set_smoothness", arg |-> 0]
    /\ last_op' = "control_call"
    /\ UNCHANGED <<controller, simple, data, since_update, ticks, pending,
                   beat_queue, engine_env>>
    /\ UNCHANGED thread_vars

\* The steps of the tick that do not wait for control_lock
LockTickStep ==
    \/ \E inp \in LockInputs : SendDmxFrameBegins(inp) /\ UNCHANGED ticks
    \/ TickReleases
    \/ TickRenders
    \/ TickSends
    \/ RunReturns

\* _update_colors at its acquire(timeout=0.01)
LockTickTries == TickUpdatesColors \/ TickSkipsUpdate

\* The steps of a setter after its acquire
LockUiStep == UiReleases \/ UiInitializesColors \/ UiInitializeTimesOut

\* A setter that found control_lock free
LockUiAcquires ==
    \E call \in LockCalls : SetterAcquires(call) /\ UNCHANGED control_calls

NextLock ==
    \/ LockSetup
    \/ control_calls = 1 /\ ThreadStart("advanced")
    \/ \E f \in LockSnapshots : ExtractorPublishes(f)
    \/ LockTickStep
    \/ LockTickTries
    \/ TickUpdateRaises
    \/ LockUiAcquires
    \/ \E call \in LockCalls : SetterTimesOut(call) /\ UNCHANGED control_calls
    \/ LockUiStep

\* A scheduler that lets each thread go on, and a lock that is handed to a
\* waiting acquire when it is released: the control surface keeps calling
\* setters, each waiting 10 ms (reset: 100 ms), and the tick holds the lock
\* for one _update_colors in every 33 ms.
SpecLock ==
    /\ Init
    /\ [][NextLock]_vars
    /\ WF_vars(LockTickStep)
    /\ WF_vars(LockTickTries)
    /\ WF_vars(LockUiStep)
    /\ SF_vars(LockUiAcquires)

----------------------------------------------------------------------------
\* Claims about _handle_beat (checked under SpecBeat)

\* C5: a _handle_beat call less than 100 ms after the previously accepted
\* beat is a no-op: last_beat_time, the timestamp history, current_bpm and
\* the beat queue are all unchanged.
C5_DebounceNoOp ==
    [][(last_op' = "handle_beat" /\ now' - last_beat_time < 100)
        => /\ last_beat_time' = last_beat_time
           /\ beat_timestamps' = beat_timestamps
           /\ current_bpm' = current_bpm
           /\ beat_queue' = beat_queue]_vars

\* C5 witness: two beats were submitted 50 ms apart, the first was accepted
\* (one event, one timestamp) and the second, the last call, was rejected.
C5_Witness ==
    /\ last_op = "handle_beat"
    /\ beat_calls >= 2
    /\ now > last_beat_time
    /\ now - last_beat_time < 100
    /\ Len(beat_queue) >= 1
    /\ beat_queue[Len(beat_queue)].timestamp = last_beat_time

BpmInRange(b) == MIN_BPM * 1000 <= b /\ b <= MAX_BPM * 1000

C7_Survivors ==
    {i \in 1..(Len(beat_timestamps) - 1) :
        LET d == beat_timestamps[i + 1] - beat_timestamps[i]
        IN  200 < d /\ d < 2000}

C7_Gap(i) == beat_timestamps[i + 1] - beat_timestamps[i]

\* C7: when every surviving interval of the history is exactly 0.5 s (and
\* there is one), current_bpm and the newest event's bpm are exactly 120,
\* whatever glitch intervals the history also holds; and when the number
\* of surviving intervals is odd, current_bpm is the clamped 60/m for the
\* middle interval m (as many survivors at or below it as at or above it).
C7_MedianBpm ==
    /\ (C7_Survivors # {} /\ \A i \in C7_Survivors : C7_Gap(i) = 500)
        => /\ current_bpm = 120 * 1000
           /\ beat_queue[Len(beat_queue)].bpm = 120 * 1000
    /\ Cardinality(C7_Survivors) % 2 = 1
        => \E m \in C7_Survivors :
            /\ 2 * Cardinality({i \in C7_Survivors : C7_Gap(i) <= C7_Gap(m)})
                    > Cardinality(C7_Survivors)
            /\ 2 * Cardinality({i \in C7_Survivors : C7_Gap(i) >= C7_Gap(m)})
                    > Cardinality(C7_Survivors)
            /\ current_bpm =
                    Max(MIN_BPM * 1000,
                        Min(MAX_BPM * 1000, (60 * 1000 * 1000) \div C7_Gap(m)))

\* C7 witness: a full history of 8 beats that holds a glitch interval
\* (2.5 s) besides 0.5 s intervals, with current_bpm at 120.
C7_Witness ==
    /\ Len(beat_timestamps) = 8
    /\ beat_calls > 8
    /\ \E i \in 1..7 : C7_Gap(i) = 2500
    /\ \A i \in C7_Survivors : C7_Gap(i) = 500
    /\ current_bpm = 120 * 1000

----------------------------------------------------------------------------
\* Claim about _update_intensity (checked under SpecIntensity)

\* C8: after any sequence of _update_intensity calls with nonnegative RMS
\* values, 0 <= current_intensity <= 1.
C8_IntensityInUnitRange == 0 <= current_intensity /\ current_intensity <= 1000

\* C8 witness: an RMS spike of 8.0 is in the history and the smoothed
\* intensity, which the blend carried above 1.0, sits at exactly 1.0.
C8_Witness ==
    /\ last_op = "update_intensity"
    /\ \E i \in 1..Len(intensity_history) : intensity_history[i] = 8000
    /\ current_intensity = 1000

----------------------------------------------------------------------------
\* Claim about _update_audio_presence (checked under SpecPresence)

\* C9: after an update, audio_active is false exactly when at least
\* SILENCE_FRAME_COUNT consecutive below-threshold blocks have been fed
\* (so it is still true after SILENCE_FRAME_COUNT - 1 of them and false
\* after SILENCE_FRAME_COUNT); a block at or above the threshold leaves
\* the silence counter at 0 and audio_active true in that same update.
C9_SilenceDetection ==
    last_op = "update_audio_presence"
    => /\ audio_active <=> quiet_run < 44
       /\ last_rms >= 10 => (silent_frames = 0 /\ audio_active)

\* C9 witness: 44 below-threshold blocks in a row, fed after a loud block,
\* have switched audio_active off.
C9_Witness ==
    /\ last_op = "update_audio_presence"
    /\ presence_calls > 44
    /\ quiet_run = 44
    /\ ~audio_active

----------------------------------------------------------------------------
\* Claims about _detect_build_drop (checked under SpecTrend)

\* C10: after every call of _detect_build_drop, is_building and is_drop
\* are never both true.
C10_BuildDropExclusive == ~(is_building /\ is_drop)

\* One second in audio blocks, rounded down (86 blocks of 512 samples).
OneSecondBlocks == SAMPLE_RATE \div BUFFER_SIZE

\* C11: once is_drop is set it stays true until 1.0 s, give or take one audio
\* block, after the call that set it, and that call's successors then clear
\* it: a call clears the flag only when it has been true for 85 to 87 blocks,
\* and the flag is never true for longer than that.
C11_DropAutoExpiry ==
    [][/\ (is_drop /\ ~is_drop')
              => (drop_age + 1) \in (OneSecondBlocks - 1)..(OneSecondBlocks + 1)
       /\ is_drop' => drop_age' <= OneSecondBlocks + 1]_vars

----------------------------------------------------------------------------
\* Claim about get_state against the running audio loop (SpecSnapshot)

\* C2: every dictionary get_state returns holds the field values of one
\* completed extractor iteration (or the values set at construction).
C2_AtomicSnapshot == returned # <<>> => returned \in committed

----------------------------------------------------------------------------
\* Claims about the lighting engines (checked under SpecEngine)

\* C1: a tick whose feature snapshot has audio_active = false returns a
\* frame in which every channel is 0, in the Advanced engine whenever ambient
\* mode is off at that tick and in the Simple engine always, whatever the
\* other parameters and the pattern or program state are.
C1_BlackoutFrameAllZero ==
    [][/\ (last_op' = "advanced_tick" /\ ~adv.ambient_mode /\ ~audio_active)
              => \A ch \in 1..DMX_CHANNELS : data'[ch] = 0
       /\ (last_op' = "simple_frame" /\ ~audio_active)
              => \A ch \in 1..DMX_CHANNELS : data'[ch] = 0]_vars

\* An Advanced tick went dark in the silence after the music, with spectrum
\* mode chosen and after an earlier tick had lit the fixtures and changed
\* the colours.
C1_Witness ==
    /\ last_op = "advanced_tick"
    /\ ~adv.ambient_mode
    /\ ~audio_active
    /\ current_intensity > 0
    /\ adv.spectrum_mode
    /\ adv.last_color_change = 1
    /\ ticks >= 2
    /\ data = ZeroFrame

\* C3: when a beat event was put on the queue since the previous frame was
\* computed, the iteration of the base loop that computes the next frame
\* does so with beat_occurred = true.
C3_FrameSeesPendingBeat ==
    [][(last_op' = "simple_frame" /\ pending) => simple'.beat_occurred]_vars

\* C4: an Advanced tick that returns the all-zero frame because audio is
\* inactive and ambient mode is off leaves the beat queue empty.
C4_BlackoutTickDrainsQueue ==
    [][(last_op' = "advanced_tick" /\ ~adv.ambient_mode /\ ~audio_active)
           => beat_queue' = <<>>]_vars

\* C15: the values the tick forces while the snapshot reports a drop
\* (beat_sensitivity 1.0, strobe_level 0.5) do not outlive the drop: after a
\* tick whose snapshot has is_drop = false, beat_sensitivity and strobe_level
\* are the values last set by the user or by the genre adaptation. Under
\* SpecEngine no setter call touches the two, so with the genre adaptation
\* off these are the values of the construction, 0.5 and 0.0.
C15_DropForcingDoesNotPersist ==
    [][(last_op' = "advanced_tick" /\ ~is_drop /\ ~adv.genre_auto)
           => /\ adv'.beat_sensitivity = AdvInit.beat_sensitivity
              /\ adv'.strobe_level = AdvInit.strobe_level]_vars

----------------------------------------------------------------------------
\* Claim about the stored parameters (checked under SpecParameters)

\* The bound of [lo, hi] nearest to v, or v itself when it lies inside
Nearest(v, lo, hi) == IF v < lo THEN lo ELSE IF v > hi THEN hi ELSE v

\* The value the newest call must have left behind, when that call was name
StoredByCall(name, stored, lo, hi) ==
    (last_op = "control_call" /\ last_call.name = name)
        => stored = Nearest(last_call.arg, lo, hi)

\* C12: after any sequence of setter calls, resets and ticks every stored
\* parameter is inside its range (the unit sliders and dimming in [0, 1],
\* bpm_sync in [0.1, 2.0], echo_length in [0, 2], bpm_division in [1, 16],
\* active_lights in [1, MAX_LIGHTS]), and right after a setter call the
\* parameter holds the argument, or the nearest bound of the range when the
\* argument was outside it.
C12_ParametersInRange ==
    /\ \A v \in {adv.smoothness, adv.rainbow_level, adv.brightness_control,
                 adv.strobe_level, adv.beat_sensitivity, adv.chaos_level,
                 simple.dimming} : 0 <= v /\ v <= 1000
    /\ 100 <= adv.bpm_sync /\ adv.bpm_sync <= 2000
    /\ 0 <= adv.echo_length /\ adv.echo_length <= 2000
    /\ 1 <= simple.bpm_division /\ simple.bpm_division <= 16
    /\ \A n \in {adv.active_lights, simple.active_lights} :
           1 <= n /\ n <= MAX_LIGHTS
    /\ StoredByCall("set_smoothness", adv.smoothness, 0, 1000)
    /\ StoredByCall("set_rainbow_level", adv.rainbow_level, 0, 1000)
    /\ StoredByCall("set_brightness", adv.brightness_control, 0, 1000)
    /\ StoredByCall("set_strobe_level", adv.strobe_level, 0, 1000)
    /\ StoredByCall("set_beat_sensitivity", adv.beat_sensitivity, 0, 1000)
    /\ StoredByCall("set_chaos_level", adv.chaos_level, 0, 1000)
    /\ StoredByCall("set_bpm_sync", adv.bpm_sync, 100, 2000)
    /\ StoredByCall("set_echo_length", adv.echo_length, 0, 2000)
    /\ StoredByCall("set_dimming", simple.dimming, 0, 1000)
    /\ StoredByCall("set_bpm_division", simple.bpm_division, 1, 16)
    /\ StoredByCall("set_light_count",
                    IF controller = "advanced" THEN adv.active_lights
                    ELSE simple.active_lights, 1, MAX_LIGHTS)

\* C12 witness: set_brightness(-5.0) has just stored 0.0, after a tick in
\* which the drop had forced beat_sensitivity to 1.0 and strobe_level to 0.5.
C12_Witness ==
    /\ last_op = "control_call"
    /\ last_call = [name |-> "set_brightness", arg |-> -5000]
    /\ adv.brightness_control = 0
    /\ ticks >= 1
    /\ adv.beat_sensitivity = 1000
    /\ adv.strobe_level = 500

----------------------------------------------------------------------------
\* Claims about the threads of the Advanced controller and control_lock

\* C13: a setter of the Advanced controller that does not get control_lock
\* within its timeout returns at once and leaves every field of the
\* controller as it was: the parameter, the colours of the lights and the
\* frame.
C13_BestEffortSetters ==
    [][last_op' = "call_dropped"
           => /\ adv' = adv
              /\ data' = data
              /\ control_lock' = control_lock
              /\ ui_pc' = "idle"]_vars

C13_Witness ==
    /\ last_op = "call_dropped"
    /\ last_call = [name |-> "set_brightness", arg |-> -5000]
    /\ adv.brightness_control = AdvInit.brightness_control
    /\ control_lock = "engine"
    /\ ui_pc = "idle"

\* c is a colour of the palette of the theme of p
InPalette(p, c) ==
    \E k \in 1..Len(ThemePalette(p.color_theme)) :
        ThemePalette(p.color_theme)[k] = c

\* C14: once a set_light_count call that changed active_lights has
\* returned, every light from active_lights on has (0,0,0) as current and
\* as target colour and every light below it has a colour of the palette as
\* target, also when the tick held control_lock while the call ran.
C14_ReinitializedOnCountChange ==
    (/\ controller = "advanced"
     /\ ui_pc = "idle"
     /\ last_call.name = "set_light_count"
     /\ adv.active_lights # AdvInit.active_lights)
        => \A i \in 0..(MAX_LIGHTS - 1) :
               IF i < adv.active_lights
               THEN InPalette(adv, adv.target_colors[i + 1])
               ELSE /\ adv.current_colors[i + 1] = <<0, 0, 0>>
                    /\ adv.target_colors[i + 1] = <<0, 0, 0>>

\* C16: when stop() has returned and the thread of the controller has
\* ended, the frame handed to the OLA client last is the all-zero frame: no
\* frame of a tick that was under way when stop() was called follows it.
C16_FinalBlackout ==
    (stop_event /\ ui_pc = "stopped" /\ engine_pc = "exited")
        => sent = ZeroFrame

\* C18: an exception raised while a tick computes or sends its frame does
\* not end the ticks: the next tick of the Advanced controller is scheduled
\* and the loop of the Simple controller goes on to its next iteration.
C18_ExceptionDoesNotEndTicks ==
    [][last_op' \in {"tick_raises", "loop_raises"}
           => engine_pc' = "scheduled"]_vars

\* Both loops have ended
LoopsExited == extractor_pc = "exited" /\ engine_pc = "exited"

\* C17: after stop_event is set the audio loop and the loop of the
\* controller each end: a loop that stands at its iteration boundary with
\* the flag set leaves, a loop that has left does not start again, and both
\* have left in the end.
C17_CooperativeShutdown ==
    /\ [][/\ (stop_event /\ extractor_pc = "head"
                  /\ extractor_pc' # extractor_pc) => extractor_pc' = "exited"
          /\ (stop_event /\ engine_pc = "scheduled"
                  /\ engine_pc' # engine_pc) => engine_pc' = "exited"
          /\ extractor_pc = "exited" => extractor_pc' = "exited"
          /\ engine_pc = "exited" => engine_pc' = "exited"]_vars
    /\ stop_event ~> LoopsExited

----------------------------------------------------------------------------
\* Claim about _select_new_colors

\* Every active light has red as target and fade progress 0
AllActiveRed(p) ==
    \A i \in 0..(p.active_lights - 1) :
        /\ p.target_colors[i + 1] = <<255, 0, 0>>
        /\ p.color_fade_progress[i + 1] = 0

\* C19: _select_new_colors ends without an exception; with an empty list
\* for the theme it selects from the list [(255,0,0)], and when a statement
\* of the selection raises, every active light gets (255,0,0) as target and
\* fade progress 0.
C19_SelectionFailsSafe ==
    [][last_op' = "select_new_colors"
           => /\ (last_call'.arg.empty \/ last_call'.arg.raised_at # NotRaised)
                     => AllActiveRed(adv')
              /\ \A i \in 0..(adv'.active_lights - 1) :
                     /\ adv'.color_fade_progress[i + 1] = 0
                     /\ \/ adv'.target_colors[i + 1] = <<255, 0, 0>>
                        \/ InPalette(adv', adv'.target_colors[i + 1])
              /\ \A i \in adv'.active_lights..(MAX_LIGHTS - 1) :
                     adv'.target_colors[i + 1] = adv.target_colors[i + 1]]_vars

C19_Witness ==
    /\ last_op = "select_new_colors"
    /\ last_call.arg = [empty |-> TRUE, raised_at |-> NotRaised]
    /\ adv.active_lights = MAX_LIGHTS
    /\ AllActiveRed(adv)

----------------------------------------------------------------------------
\* Claim about the setters of a name

\* The valid set of the setter `name`
ValidNames(name) ==
    CASE name = "set_pattern" -> valid_patterns
      [] name = "set_color_theme" -> DOMAIN COLOR_THEMES
      [] name = "set_effect_mode" -> valid_effects
      [] name = "set_program" -> PROGRAMS
      [] OTHER -> {}

NameSetters ==
    {"set_pattern", "set_color_theme", "set_effect_mode", "set_program"}

\* C20: set_pattern, set_color_theme, set_effect_mode and set_program
\* called with a name outside their valid set change nothing, and after
\* any setter calls and ticks, pattern changes by chaos included, pattern,
\* colour theme, effect mode and program hold names of their valid sets.
C20_UnknownNamesIgnored ==
    /\ [](/\ adv.pattern \in valid_patterns
          /\ adv.color_theme \in DOMAIN COLOR_THEMES
          /\ adv.effect_mode \in valid_effects
          /\ simple.program \in PROGRAMS)
    /\ [][(/\ last_op' = "control_call"
           /\ last_call'.name \in NameSetters
           /\ last_call'.arg \notin ValidNames(last_call'.name))
              => /\ adv' = adv
                 /\ simple' = simple
                 /\ data' = data]_vars

C20_Witness ==
    /\ last_op = "control_call"
    /\ last_call = [name |-> "set_color_theme", arg |-> "rainbow"]
    /\ adv.color_theme = "default"
    /\ ticks >= 1

\* A tick with chaos has replaced the pattern set at construction.
C20_ChaosReassigned ==
    /\ last_op = "advanced_tick"
    /\ adv.chaos_level > 0
    /\ adv.pattern = "alternate"

----------------------------------------------------------------------------
\* Claim about _send_dmx of the Simple controller

\* C21: after _send_dmx was called for a frame the loop of the Simple
\* controller goes on: it comes back to the head of the loop, whether the
\* completion callback has run or not and whatever status it reports, and
\* a failed send changes no state of the controller.
C21_SendDoesNotGateNextTick ==
    /\ [][last_op' = "dmx_send_failed"
              => /\ simple' = simple
                 /\ data' = data
                 /\ since_update' = since_update]_vars
    /\ (controller = "simple" /\ engine_pc = "in_run" /\ ~stop_event)
           ~> (engine_pc = "scheduled" \/ stop_event)

----------------------------------------------------------------------------
\* Claim about the frames

\* The number of lights of the running controller
ActiveLights ==
    IF controller = "advanced" THEN adv.active_lights ELSE simple.active_lights

\* Every channel of the lights from `active` on is 0 in frame
InactiveDark(frame, active) ==
    \A i \in active..(MAX_LIGHTS - 1) :
        \A name \in DOMAIN CHANNELS : frame[ChannelOf(i, name)] = 0

----------------------------------------------------------------------------
\* C23: after every _detect_genre call the reported genre is the
\* highest-scoring genre when that score exceeds 0.5, and 'auto' when no
\* score exceeds 0.5 -- so it is 'auto' again once every score has
\* decayed to 0.5 or below.
C23_GenreThreshold ==
    [][last_op' = "detect_genre"
           => detected_genre' = IF MaxScore(genre_hints') > 500000
                                THEN FirstAtMax(genre_hints')
                                ELSE "auto"]_vars

----------------------------------------------------------------------------
\* C24: when the blocking read raises a PortAudio error, every feature
\* field, the beat history and the beat queue stay as they are and the
\* extractor stays in its loop, ready to read the next block; the loop
\* ends only on the shutdown flag or on an error that is not a PortAudio
\* error.
FeatureFields ==
    <<current_bpm, current_intensity, audio_active, freq_state, is_building,
      is_drop, detected_genre, genre_hints, intensity_history,
      intensity_trend, silent_frames>>

C24_ReadErrorsSurvivable ==
    /\ [][last_op' = "PortAudioError"
              => /\ FeatureFields' = FeatureFields
                 /\ <<last_beat_time, beat_timestamps>>' =
                        <<last_beat_time, beat_timestamps>>
                 /\ beat_queue' = beat_queue
                 /\ audio_pc' = "read"]_vars
    /\ [][(audio_pc # "ended" /\ audio_pc' = "ended")
              => stop_event \/ last_op' = "Exception"]_vars

\* After a PortAudio error the next block, one with a beat, was processed
\* to its end.
C24_Witness ==
    /\ read_errors >= 1
    /\ last_op = "update_shared_state"
    /\ blocks_done = 1
    /\ block.beat
    /\ audio_active

----------------------------------------------------------------------------
----------------------------------------------------------------------------
\* C26: in every Advanced frame that is not the blackout frame, whatever
\* the snapshot (intensity 0 included) and the parameters (brightness
\* slider 0 included), the dimmer channel of every active fixture is at
\* least 1 and at most 255.
C26_BrightnessFloor ==
    [][(last_op' = "advanced_tick" /\ ~Blackout(adv, GetState))
           => \A i \in 0..(adv'.active_lights - 1) :
                 /\ data'[ChannelOf(i, "dimmer")] >= 1
                 /\ data'[ChannelOf(i, "dimmer")] <= 255]_vars

\* A frame computed in a pause of the music with the brightness slider
\* at 0.
C26_Witness ==
    /\ last_op = "advanced_tick"
    /\ audio_active
    /\ current_intensity = 0
    /\ adv.brightness_control = 0
    /\ \A i \in 0..(adv.active_lights - 1) :
           data[ChannelOf(i, "dimmer")] = 2

----------------------------------------------------------------------------
\* C27: a colour selection with rainbow_level < 0.2 gives every active
\* fixture the same target; with 0.2 <= rainbow_level < 0.5 fixture i gets
\* palette[(base + i*spread // active_lights) mod size] for one common base
\* and spread = max(1, floor(0.3*size)); every selection sets the fade
\* progress of each active fixture to 0.
C27_RainbowTiers ==
    [][last_op' = "select_new_colors"
           => LET palette == ThemePalette(adv.color_theme)
                  size == Len(palette)
                  n == adv.active_lights
                  spread == Max(1, (3 * size) \div 10)
              IN  /\ adv.rainbow_level < 200
                        => \A i \in 1..n :
                              adv'.target_colors[i] = adv'.target_colors[1]
                  /\ (200 <= adv.rainbow_level /\ adv.rainbow_level < 500)
                        => \E base \in 0..(size - 1) :
                              \A i \in 0..(n - 1) :
                                 adv'.target_colors[i + 1] =
                                    palette[((base + (i * spread) \div n)
                                                % size) + 1]
                  /\ \A i \in 1..n : adv'.color_fade_progress[i] = 0]_vars

\* A selection at rainbow level 0.21 that gave the fixtures different
\* targets.
C27_Witness ==
    /\ last_op = "select_new_colors"
    /\ adv.rainbow_level = 210
    /\ adv.target_colors[1] # adv.target_colors[2]
    /\ \A i \in 1..adv.active_lights : adv.color_fade_progress[i] = 0

\* A selection at rainbow level 0.19: one common target.
C27_SingleColor ==
    /\ last_op = "select_new_colors"
    /\ adv.rainbow_level = 190
    /\ \A i \in 1..adv.active_lights :
           adv.target_colors[i] = adv.target_colors[1]

----------------------------------------------------------------------------
\* C28: with rainbow_level < 0.2 the common target walks the palette of
\* the selected theme one position per trigger and wraps at its end, so
\* from any moment on every entry of the palette becomes the target
\* again, for every theme of COLOR_THEMES.
C28_GlobalCycle ==
    \A theme \in DOMAIN COLOR_THEMES :
        \A k \in 1..Len(COLOR_THEMES[theme]) :
            (CycleReady /\ adv.color_theme = theme)
                ~> (adv.target_colors[1] = COLOR_THEMES[theme][k])

\* The same for the themes whose palette holds no colour twice.
NoRepeats(palette) ==
    \A j \in 1..Len(palette), k \in 1..Len(palette) :
        palette[j] = palette[k] => j = k

C28_CycleWithoutRepeats ==
    \A theme \in {t \in DOMAIN COLOR_THEMES : NoRepeats(COLOR_THEMES[t])} :
        \A k \in 1..Len(COLOR_THEMES[theme]) :
            (CycleReady /\ adv.color_theme = theme)
                ~> (adv.target_colors[1] = COLOR_THEMES[theme][k])

----------------------------------------------------------------------------
\* C29: with bpm_division = N held constant and one call per tick,
\* _should_trigger_effect returns true exactly on the N-th tick with a
\* beat since the last trigger and false on every other tick; a tick
\* without a beat neither triggers nor moves the counter.
C29_BeatDivider ==
    [][last_op' \in {"trigger", "no_trigger"}
           => /\ (last_op' = "trigger")
                    <=> /\ simple'.beat_occurred
                        /\ divider_env.beats + 1 = simple.bpm_division
              /\ ~simple'.beat_occurred
                    => simple'.beat_counter = simple.beat_counter]_vars

\* The second trigger of a divider by 3: six beats and two ticks without
\* one have passed.
C29_Witness ==
    /\ last_op = "trigger"
    /\ simple.bpm_division = 3
    /\ divider_env.ticks = 8
    /\ simple.beat_counter = 0

----------------------------------------------------------------------------
\* C30: a tick of _program_dj_mode changes dj_current_program only when
\* the beats counted in the current sub-program, this tick's beat
\* included, have reached dj_min_beats; and the sub-program is never
\* 'DJ Mode' itself.
C30_DjCooldown ==
    [][last_op' = "dj_mode"
           => /\ dj'.dj_current_program # dj.dj_current_program
                    => dj.dj_program_beats + (IF dj_env'.beat THEN 1 ELSE 0)
                           >= dj.dj_min_beats
              /\ dj'.dj_current_program # "DJ Mode"]_vars

----------------------------------------------------------------------------
\* The parameters of the Advanced controller that the claim C31 names
UserParameters(p) ==
    <<p.smoothness, p.rainbow_level, p.brightness_control, p.strobe_level,
      p.beat_sensitivity, p.color_theme, p.pattern, p.ambient_mode>>

\* C31: a tick of the Advanced controller that runs with genre_auto off,
\* chaos_level 0 and a snapshot whose is_drop is false leaves smoothness,
\* rainbow_level, brightness_control, strobe_level, beat_sensitivity, the
\* colour theme, the pattern and ambient_mode as they were.
C31_TickKeepsUserParameters ==
    [][(last_op' = "advanced_tick" /\ ~adv.genre_auto /\ adv.chaos_level = 0
            /\ ~GetState.is_drop)
           => UserParameters(adv') = UserParameters(adv)]_vars

\* A tick that rendered a frame of a loud EDM passage after the user had
\* moved the smoothness slider to its end.
C31_Witness ==
    /\ last_op = "advanced_tick"
    /\ ~adv.genre_auto /\ adv.chaos_level = 0
    /\ ~is_drop /\ audio_active /\ detected_genre = "edm"
    /\ adv.smoothness = 1000
    /\ data # ZeroFrame

----------------------------------------------------------------------------
\* The sum of the last n elements of s
SumOfLast(s, n) == SumSeq(SubSeq(s, Len(s) - n + 1, Len(s)))

\* C32: is_drop goes from false to true only in a call of
\* _detect_build_drop in which is_building was true, at the call or set
\* earlier in the same call, and the intensity passed exceeds 1.5 times the
\* mean of the 10 most recent samples; that call leaves is_building false.
\* While fewer than 10 samples are collected no call changes either flag.
C32_DropOnlyFromBuilding ==
    [][last_op' = "detect_build_drop"
           => /\ (~is_drop /\ is_drop')
                    => /\ Len(intensity_trend') >= 10
                       /\ is_building \/ (build_age' = 0)
                       /\ 10 * 2 * last_level' > 3 * SumOfLast(intensity_trend', 10)
                       /\ ~is_building'
              /\ Len(intensity_trend') < 10
                    => /\ is_building' = is_building
                       /\ is_drop' = is_drop]_vars

\* A call that set is_drop for a build-up that had begun in an earlier call
C32_Witness ==
    /\ last_op = "detect_build_drop"
    /\ is_drop /\ drop_age = 0
    /\ ~is_building
    /\ build_age > 0

\* A call that set is_building and is_drop at once: the first loud sample
\* after silence
C32_BuildAndDropInOneCall ==
    /\ last_op = "detect_build_drop"
    /\ is_drop /\ drop_age = 0
    /\ build_age = 0

----------------------------------------------------------------------------
\* C37: Building is left only into Drop: a call of _detect_build_drop that
\* finds is_building true either leaves it true or leaves is_drop true,
\* whatever the intensities are; no call takes Building to Normal.
C37_BuildingExitsOnlyToDrop ==
    [][(last_op' = "detect_build_drop" /\ is_building)
           => (is_building' \/ is_drop')]_vars

\* is_building is cleared only by a call whose drop test succeeds (the
\* intensity exceeds 1.5 times the mean of the 10 most recent samples).
C37_ClearedOnlyByDropTest ==
    [][(last_op' = "detect_build_drop" /\ is_building /\ ~is_building')
           => 10 * 2 * last_level' > 3 * SumOfLast(intensity_trend', 10)]_vars

----------------------------------------------------------------------------
\* What every tick and every call does to ambient_mode: a tick never
\* clears it, and the only steps that clear it are set_ambient_mode and
\* reset.
AmbientLatched ==
    /\ (last_op' = "advanced_tick" /\ adv.ambient_mode) => adv'.ambient_mode
    /\ (adv.ambient_mode /\ ~adv'.ambient_mode)
           => /\ last_op' = "control_call"
              /\ last_call'.name \in {"set_ambient_mode", "reset"}

\* C38 as stated: with genre_auto enabled, a tick whose snapshot has genre
\* 'ambient' leaves ambient_mode true; no later tick sets it back to false,
\* whatever the genre; it returns to false only through
\* set_ambient_mode(false) or reset.
C38_AmbientLatch ==
    [][/\ (last_op' = "advanced_tick" /\ adv.genre_auto
               /\ detected_genre = "ambient")
              => adv'.ambient_mode
       /\ AmbientLatched]_vars

\* C38 amended: the tick sets ambient_mode when it gets as far as the genre
\* adaptation, that is when the snapshot has audio_active true (or
\* ambient_mode is on already); the blackout tick of silence returns
\* before it.
C38_AmbientLatchWhenRendering ==
    [][/\ (last_op' = "advanced_tick" /\ adv.genre_auto
               /\ detected_genre = "ambient"
               /\ (audio_active \/ adv.ambient_mode))
              => adv'.ambient_mode
       /\ AmbientLatched]_vars

\* A tick of a loud EDM passage that kept the ambient mode an earlier tick
\* had switched on: the one call made is set_genre_auto(True).
C38_Witness ==
    /\ last_op = "advanced_tick"
    /\ adv.genre_auto /\ adv.ambient_mode
    /\ detected_genre = "edm"
    /\ control_calls = 1
    /\ ticks = 2

----------------------------------------------------------------------------
\* The current colour of every active light is its target colour
Converged(p) ==
    \A k \in 1..p.active_lights : p.current_colors[k] = p.target_colors[k]

\* C36: for every active light color_fade_progress stays within [0, 1]; a
\* step lowers it only if it is a tick that triggers a colour change; in
\* the tick in which it reaches 1.0 the current colour of the light is its
\* target colour; and once no further colour change is triggered the
\* current colour of every active light becomes its target colour and
\* stays so.
C36_FadesConverge ==
    /\ [][\A k \in 1..adv'.active_lights :
              /\ adv'.color_fade_progress[k] \in 0..1000
              /\ adv'.color_fade_progress[k] < adv.color_fade_progress[k]
                     => last_op' = "colour_change"
              /\ ( /\ last_op' \in {"colour_change", "fade"}
                   /\ adv.color_fade_progress[k] < 1000
                   /\ adv'.color_fade_progress[k] = 1000 )
                     => adv'.current_colors[k] = adv'.target_colors[k]]_vars
    /\ <>[]Converged(adv)

\* A fade tick that completed the fade of a light whose target differs
\* from the colour the light had when the controller was constructed
C36_Witness ==
    /\ last_op = "fade"
    /\ adv.color_fade_progress[1] = 1000
    /\ adv.current_colors[1] = adv.target_colors[1]
    /\ adv.target_colors[1] # AdvInit.current_colors[1]
    /\ fade_triggers = MaxFadeTriggers

----------------------------------------------------------------------------
\* C34: in every frame the Simple controller renders with a bounce program,
\* bounce_position is the index of an active light and bounce_direction is
\* +1 or -1, whatever beats and set_light_count calls came before; a frame
\* that moves the position moves it by one light, and the direction changes
\* only with the position at light 0 or at the last active light.
C34_BouncePositionActive ==
    [][(last_op' = "simple_frame" /\ audio_active
            /\ simple'.program \in BouncePrograms)
           => /\ 0 <= simple'.bounce_position
              /\ simple'.bounce_position <= simple'.active_lights - 1
              /\ simple'.bounce_direction \in {1, -1}
              /\ simple'.bounce_position # simple.bounce_position
                    => Abs(simple'.bounce_position - simple.bounce_position) = 1
              /\ simple'.bounce_direction # simple.bounce_direction
                    => simple'.bounce_position
                           \in {0, simple'.active_lights - 1}]_vars

----------------------------------------------------------------------------
\* C33: once set_program(p) with a name p of PROGRAMS has returned, and
\* until the next set_program call, the program of the engine is p whenever
\* the thread of the controller is not inside _program_dj_mode, also when
\* the call came while a tick was executing DJ Mode.
C33_ProgramSelectionKept ==
    ( /\ last_call.name = "set_program"
      /\ last_call.arg \in PROGRAMS
      /\ engine_pc # "dj_subprogram" )
        => simple.program = last_call.arg

----------------------------------------------------------------------------
\* Claims about control_lock (checked under SpecLock)

\* A thread holds control_lock exactly between its acquire and the finally
\* clause that follows it: where a thread is about to acquire, or has left
\* the locked region by its end or by an exception, it is not the holder.
HeldOnlyInside ==
    /\ control_lock = "engine" <=> engine_pc = "locked"
    /\ control_lock = "ui" <=> ui_pc \in {"holding", "holding_reinit"}

\* C35: control_lock is deadlock-free in the Advanced engine. No thread
\* reaches an acquire of control_lock while it holds the lock (the setters,
\* reset, the re-initialisation of set_light_count, _update_colors), every
\* acquire that succeeded is followed by a release, also when the locked
\* code raised, and so no thread is stopped by the lock: a lock that is
\* held becomes free, the control surface that keeps calling setters
\* acquires it again and again, and the tick leaves the acquire of
\* _update_colors, with the lock or after its timeout.
C35_LockDeadlockFree ==
    /\ []HeldOnlyInside
    /\ [][control_lock' # control_lock
              => (control_lock = "free" \/ control_lock' = "free")]_vars
    /\ (control_lock # "free") ~> (control_lock = "free")
    /\ [](controller = "advanced" => <>(control_lock = "ui"))
    /\ (engine_pc = "update_colors") ~> (engine_pc \in {"locked", "render"})

\* C35 witness: the tick waits at the acquire of _update_colors while the
\* control surface holds the lock in _initialize_colors, which
\* set_light_count called after it had released the lock.
C35_Witness ==
    /\ last_op = "ui_initializes_colors"
    /\ control_lock = "ui"
    /\ ui_pc = "holding"
    /\ engine_pc = "update_colors"
    /\ last_call.name = "set_light_count"

\* C35 witness of the exception path: _update_colors raised, the tick is
\* not scheduled again, and a setter acquired the lock afterwards.
C35_AcquiredAfterException ==
    /\ engine_pc \in {"unscheduled", "exited"}
    /\ last_op = "control_call"
    /\ control_lock = "ui"

====
